---- MODULE Spec2Model ----
(***************************************************************************)
(* State-machine model of the arena battle scene (overlay/game/SceneBattle *)
(* with Fighter, Projectile, unitDefs and core/ObjectPool).                *)
(*                                                                         *)
(* Time is counted in hundredths of a millisecond, so that the fixed step  *)
(* 16.67 ms is the integer 1667 and every cooldown is an exact integer.    *)
(*                                                                         *)
(* Positions and velocities are not represented.  Every test the code      *)
(* makes on a distance (nearest target, in range, too close, projectile    *)
(* overlap, area radius) is a nondeterministic choice among the outcomes   *)
(* some placement of the fighters can produce.  Every Math.random() draw   *)
(* is a choice from a named set of representative values.                  *)
(*                                                                         *)
(* JavaScript is single threaded: handlers never interleave.  update() is  *)
(* split at its loop iterations with the position kept in pc; no other     *)
(* handler is enabled while pc = "loop".                                   *)
(***************************************************************************)
EXTENDS Integers, Sequences, FiniteSets, TLC

VARIABLES
  phase,                \* SceneBattle.phase
  accumulator,          \* SceneBattle.accumulator
  steps,                \* local `steps` of update()
  pc,                   \* "idle" between handlers, "loop" inside update()'s while
  F,                    \* the Fighter objects: object -> fields
  entities,             \* the SpatialEntity view of the objects: id, x, y
  spatialHash,          \* SceneBattle.spatialHash: cellSize, grid, entityToCell
  activeFighters,       \* SceneBattle.activeFighters (sequence of objects)
  fighterMap,           \* SceneBattle.fighterMap: id -> object, 0 when absent
  fighterPool,          \* ObjectPool<Fighter>.available (free list)
  fCreated,             \* number of Fighter objects constructed so far
  P,                    \* the Projectile objects: object -> fields
  activeProjectiles,    \* SceneBattle.activeProjectiles
  projectilePool,       \* ObjectPool<Projectile>.available
  pCreated,             \* number of Projectile objects constructed so far
  tempAllies,           \* SceneBattle.tempAllies (snapshot of the last tick)
  tempEnemies,          \* SceneBattle.tempEnemies
  waveNumber, waveActive, waveSpawnsRemaining, waveSpawnCdMs, betweenWaveCdMs,
  seenDead,             \* SceneBattle.seenDead (set of ids)
  killsToday,           \* SceneBattle.killsToday: name -> kills (0 when absent)
  timers,               \* pending time.delayedCall despawn callbacks (ids)
  genCount,             \* number of random ids generated so far
  nEvents,              \* number of external events and dev actions handled
  hist                  \* history record, written for the properties only

vars == <<phase, accumulator, steps, pc, F, entities, spatialHash, activeFighters, fighterMap,
          fighterPool, fCreated, P, activeProjectiles, projectilePool,
          pCreated, tempAllies, tempEnemies, waveNumber, waveActive,
          waveSpawnsRemaining, waveSpawnCdMs, betweenWaveCdMs, seenDead,
          killsToday, timers, genCount, nEvents, hist>>

----------------------------------------------------------------------------
(* Bounds of the model *)

MaxFighters == 4        \* Fighter objects that can exist
PoolInitF == 1          \* Fighter objects pre-created in the pool
MaxProjectiles == 2     \* Projectile objects that can exist
PoolInitP == 1          \* Projectile objects pre-created in the pool
MaxGen == 4             \* random ids that can be generated
MaxEvents == 3          \* external events and dev actions handled
MaxWave == 2            \* waves that can start
NumUsers == 1           \* distinct user ids the lobby can send
MaxTicks == 8           \* fixed ticks after which update() is no longer called
MaxClockTicks == 30     \* the same, for the frame clock alone
MaxDuelTicks == 20      \* the same, for the duel
MaxCount == 2           \* cap of the history counters landed and passes
MaxAmount == 8          \* largest damage and heal amount tried on one fighter
MaxHits == 3            \* arrows that have hit each ally of the healer
MaxEntities == 2        \* entities the spatial hash is tried on
MaxCoord == 2           \* their coordinates lie in -MaxCoord .. MaxCoord - 1
MaxCellSize == 2        \* cell sizes tried, from 1
MaxRadius == 2          \* query radii tried, from 0
MaxOps == 2             \* Fighter methods called in a row on that fighter
MaxObjects == 9         \* Fighter objects and random ids of a wave run
MaxWaveNo == 5          \* highest wave number a wave run starts
MaxWaveTicks == 32      \* fixed ticks of a wave run
MaxPoolWave == 19       \* highest wave number whose kind pool is drawn from
MaxPoolTicks == 1       \* fixed ticks of such a run

----------------------------------------------------------------------------
(* Program constants, in 1/100 ms *)

FIXED_DT == 1667
MAX_STEPS == 5
BASE_PER_PLAYER == 3
WAVE_BONUS == 2
BURST_SIZE == 4
BURST_INTERVAL_MS == 50000
BETWEEN_WAVE_MS == 220000
BOSS_EVERY == 5
PROJ_MAX_LIFE == 250000
STAGGER_MS == 12000

Obj == 1 .. (IF MaxObjects > MaxFighters THEN MaxObjects ELSE MaxFighters)
PObj == 1 .. MaxProjectiles

NoId == <<"none", 0>>
UserIds == {<<"u", n>> : n \in 1 .. NumUsers}
GenIds == {<<"g", n>> : n \in 1 .. (IF MaxObjects > MaxGen THEN MaxObjects ELSE MaxGen)}
AllIds == UserIds \cup GenIds

\* The phases the modelled messages carry: the scene only tests for BATTLE
EventPhases == {"BATTLE", "FINISH"}

----------------------------------------------------------------------------
(* unitDefs.ts: the static unit catalog.  Times in 1/100 ms, speed in      *)
(* 1/100 units, minRange 0 when the definition has none, aoe 0 when the    *)
(* projectile has no aoeRadius, pradius 0 when it has no projectile.       *)

UnitDef(side, role, maxHP, atk, def, range, speed, minRange, windupMs, recoverMs, attackCooldownMs, despawnMs, canBlock, pradius, aoe) ==
  [side |-> side, role |-> role, maxHP |-> maxHP, atk |-> atk, def |-> def,
   range |-> range, speed |-> speed, minRange |-> minRange,
   windupMs |-> windupMs * 100, recoverMs |-> recoverMs * 100,
   attackCooldownMs |-> attackCooldownMs * 100, despawnMs |-> despawnMs * 100,
   canBlock |-> canBlock, pradius |-> pradius, aoe |-> aoe]

UNIT_DEFS ==
  [soldier        |-> UnitDef("player", "melee", 110, 12, 3, 90, 75, 0, 220, 180, 900, 1000, FALSE, 0, 0),
   swordsman      |-> UnitDef("player", "melee", 105, 14, 3, 95, 80, 0, 210, 170, 850, 1000, FALSE, 0, 0),
   knight         |-> UnitDef("player", "melee", 140, 16, 6, 96, 72, 0, 240, 200, 950, 1200, TRUE, 0, 0),
   knight_templar |-> UnitDef("player", "melee", 160, 20, 7, 98, 72, 0, 250, 220, 950, 1200, TRUE, 0, 0),
   armored_axeman |-> UnitDef("player", "melee", 150, 22, 5, 92, 68, 0, 270, 250, 1050, 1200, FALSE, 0, 0),
   lancer         |-> UnitDef("player", "melee", 115, 16, 3, 120, 86, 0, 220, 160, 900, 1000, FALSE, 0, 0),
   archer         |-> UnitDef("player", "ranged", 90, 14, 2, 220, 72, 0, 220, 100, 900, 900, FALSE, 10, 0),
   wizard         |-> UnitDef("player", "magic", 88, 18, 2, 300, 70, 200, 280, 160, 1150, 900, FALSE, 16, 42),
   priest         |-> UnitDef("player", "healer", 92, 0, 2, 250, 70, 150, 260, 160, 1200, 900, FALSE, 15, 0),
   werewolf       |-> UnitDef("player", "melee", 170, 26, 5, 95, 100, 0, 180, 140, 800, 1200, FALSE, 0, 0),
   werebear       |-> UnitDef("player", "melee", 210, 28, 7, 100, 62, 0, 300, 240, 1200, 1400, FALSE, 0, 0),
   orc            |-> UnitDef("enemy", "melee", 100, 12, 2, 90, 76, 0, 220, 180, 950, 800, FALSE, 0, 0),
   armored_orc    |-> UnitDef("enemy", "melee", 140, 16, 4, 92, 70, 0, 240, 200, 980, 900, FALSE, 0, 0),
   elite_orc      |-> UnitDef("enemy", "melee", 160, 20, 5, 94, 78, 0, 230, 180, 900, 900, FALSE, 0, 0),
   orc_rider      |-> UnitDef("enemy", "melee", 170, 22, 5, 96, 105, 0, 220, 160, 850, 900, FALSE, 0, 0),
   skeleton       |-> UnitDef("enemy", "melee", 80, 10, 1, 88, 78, 0, 210, 150, 900, 700, FALSE, 0, 0),
   armored_skeleton |-> UnitDef("enemy", "melee", 120, 14, 3, 90, 74, 0, 220, 170, 930, 800, FALSE, 0, 0),
   greatsword_skeleton |-> UnitDef("enemy", "melee", 130, 18, 2, 98, 72, 0, 260, 220, 1100, 900, FALSE, 0, 0),
   skeleton_archer |-> UnitDef("enemy", "ranged", 85, 12, 1, 210, 72, 0, 230, 120, 950, 800, FALSE, 10, 0),
   slime          |-> UnitDef("enemy", "melee", 60, 8, 0, 80, 65, 0, 260, 200, 1050, 600, FALSE, 0, 0)]

Kinds == DOMAIN UNIT_DEFS

(* Object.keys(UNIT_DEFS): the kinds in insertion order *)
KindOrder ==
  <<"soldier", "swordsman", "knight", "knight_templar", "armored_axeman",
    "lancer", "archer", "wizard", "priest", "werewolf", "werebear", "orc",
    "armored_orc", "elite_orc", "orc_rider", "skeleton", "armored_skeleton",
    "greatsword_skeleton", "skeleton_archer", "slime">>

----------------------------------------------------------------------------
(* Representative outcomes of the Math.random() draws, in 1/100 ms *)

\* Fighter.init: aiCdMs = 80 + floor(random * 80), 80 .. 159 ms
InitAiCdDraws == {8000}
\* updateFighter: aiCdMs = 120 + floor(random * 40 - 20), 100 .. 139 ms
AiCdDraws == {10000}
\* tryAttack: attackCdMs = baseCd + floor(random * 400 - 180), -180 .. 219 ms
AttackCdJitter == {-18000}

----------------------------------------------------------------------------
(* Fighter objects (Fighter.ts, first class of the file) *)

DisplayName(kind) == <<kind, 0>>
UserName(id) == <<"user", id[2]>>
NamesDom == {UserName(i) : i \in UserIds} \cup {DisplayName(k) : k \in Kinds}

(* A Fighter as its field initialisers and constructor leave it.  vel says *)
(* whether the velocity (vx, vy) is other than zero: updateFixed 408-411    *)
(* changes the position exactly then (the damping keeps a velocity nonzero) *)
NewFighter ==
  [id |-> NoId, name |-> <<"", 0>>, team |-> "A", kind |-> "soldier",
   level |-> 1, maxHP |-> 100, hp |-> 100, atk |-> 12,
   state |-> "idle", target |-> 0, dead |-> FALSE, pooled |-> FALSE,
   lastHitBy |-> NoId, canBlock |-> FALSE, vel |-> FALSE,
   attackCdMs |-> 0, windupMs |-> 0, recoverMs |-> 0, staggerMs |-> 0,
   aiCdMs |-> 0, blockCdMs |-> 0]

(* Fighter.reset: the pool's reset function *)
FighterReset(f) == [f EXCEPT !.pooled = TRUE]

(* Fighter.init: level, canBlock and __lastHitBy are not assigned *)
FighterInit(f, id, name, team, kind, aiCd) ==
  [f EXCEPT !.id = id, !.name = name, !.team = team, !.kind = kind,
            !.state = "idle", !.target = 0, !.dead = FALSE, !.pooled = FALSE,
            !.vel = FALSE,
            !.maxHP = UNIT_DEFS[kind].maxHP, !.hp = UNIT_DEFS[kind].maxHP,
            !.atk = UNIT_DEFS[kind].atk,
            !.attackCdMs = 0, !.windupMs = 0, !.recoverMs = 0,
            !.staggerMs = 0, !.blockCdMs = 0, !.aiCdMs = aiCd]

Defn(f) == UNIT_DEFS[f.kind]

BLOCK_DURATION_MS == 26000

(* Enter without the test of _dead *)
Enter_ignoresDeath(f, st) ==
  IF st = "windup" THEN [f EXCEPT !.state = st, !.windupMs = Defn(f).windupMs]
  ELSE IF st = "block" THEN [f EXCEPT !.state = st, !.blockCdMs = BLOCK_DURATION_MS]
  ELSE [f EXCEPT !.state = st]

(* Fighter.enter *)
Enter(f, st) ==
  IF f.dead THEN f
  ELSE IF st = "windup" THEN [f EXCEPT !.state = st, !.windupMs = Defn(f).windupMs]
  ELSE IF st = "block" THEN [f EXCEPT !.state = st, !.blockCdMs = BLOCK_DURATION_MS]
  ELSE [f EXCEPT !.state = st]

(* Fighter.die *)
Die(f) == IF f.dead THEN f ELSE [f EXCEPT !.dead = TRUE, !.state = "dead"]

Max(a, b) == IF a >= b THEN a ELSE b
Min(a, b) == IF a <= b THEN a ELSE b

(* Heal without the cap at maxHP *)
Heal_noClamp(f, amount) ==
  IF f.dead \/ amount <= 0 THEN f
  ELSE [f EXCEPT !.hp = f.hp + amount]

(* Fighter.heal *)
Heal(f, amount) ==
  IF f.dead \/ amount <= 0 THEN f
  ELSE [f EXCEPT !.hp = Min(f.maxHP, f.hp + amount)]

(* Fighter.tryBeginBlock; the result is <<fighter, began>> *)
TryBeginBlock(f) ==
  IF ~f.canBlock \/ f.blockCdMs > 0 \/ f.state = "block"
  THEN <<f, FALSE>> ELSE <<Enter(f, "block"), TRUE>>

(* Fighter.takeDamage; blockRoll is the outcome of random < 0.28.           *)
(* blockReductionPct is the field initialiser 0.7: floor(dmg * 0.3).        *)
(* takeDamage 495-503: the fighter g is left with newHP *)
ApplyDamage(g, newHP) ==
  IF newHP = g.hp THEN g
  ELSE IF newHP <= 0
  THEN Die([g EXCEPT !.hp = newHP, !.staggerMs = Max(g.staggerMs, STAGGER_MS)])
  ELSE [g EXCEPT !.hp = newHP, !.staggerMs = Max(g.staggerMs, STAGGER_MS)]

(* DamageAfterBlock without the floor of 1 on the effective damage *)
DamageAfterBlock_noFloor(g, d) ==
  ApplyDamage(g, Max(0, g.hp - (d - Defn(g).def)))

(* takeDamage 493-494: the damage d, after the block, on the fighter g *)
DamageAfterBlock(g, d) ==
  ApplyDamage(g, Max(0, g.hp - Max(1, d - Defn(g).def)))

TakeDamage(f, dmg, blockRoll) ==
  IF f.dead THEN f
  ELSE IF f.canBlock /\ f.blockCdMs <= 0 /\ blockRoll
  THEN IF TryBeginBlock(f)[2]
       THEN DamageAfterBlock(TryBeginBlock(f)[1], (dmg * 3) \div 10)
       ELSE DamageAfterBlock(f, dmg)
  ELSE DamageAfterBlock(f, dmg)

DecIfPos(t) == IF t > 0 THEN t - FIXED_DT ELSE t

(* Fighter.updateFixed, without the motion and the UI *)
(* updateFixed 387-392: the timers count down *)
TickCooldowns(f) ==
  [f EXCEPT !.attackCdMs = DecIfPos(@), !.windupMs = DecIfPos(@),
            !.recoverMs = DecIfPos(@), !.staggerMs = DecIfPos(@),
            !.aiCdMs = DecIfPos(@), !.blockCdMs = DecIfPos(@)]

(* updateFixed 396-399 *)
WindupDone(a) ==
  IF a.windupMs <= 0 /\ a.state = "windup"
  THEN [a EXCEPT !.state = "recover", !.recoverMs = Defn(a).recoverMs] ELSE a

(* updateFixed 400-402 *)
RecoverDone(b) ==
  IF b.recoverMs <= 0 /\ b.state = "recover" THEN [b EXCEPT !.state = "idle"] ELSE b

(* updateFixed 403-405 *)
BlockDone(c) ==
  IF c.blockCdMs <= 0 /\ c.state = "block" THEN [c EXCEPT !.state = "idle"] ELSE c

(* Fighter.updateFixed, without the motion and the UI *)
FighterUpdateFixed(f) ==
  IF f.pooled \/ f.dead THEN f
  ELSE BlockDone(RecoverDone(WindupDone(TickCooldowns(f))))

----------------------------------------------------------------------------
(* Projectile objects (Projectile.ts) *)

NewProjectile ==
  [team |-> "A", kind |-> "generic", dmg |-> 0, radius |-> 10, aoeRadius |-> 0,
   ownerId |-> NoId, lifeMs |-> 0, maxLifeMs |-> PROJ_MAX_LIFE,
   alive |-> FALSE, pooled |-> FALSE]

(* Projectile.reset *)
ProjectileReset(p) == [p EXCEPT !.pooled = TRUE, !.alive = FALSE]

(* Projectile.init *)
ProjectileInit(p, team, kind, dmg, ownerId, radius, maxLifeMs, aoeRadius) ==
  [p EXCEPT !.team = team, !.kind = kind, !.dmg = dmg, !.ownerId = ownerId,
            !.radius = radius, !.maxLifeMs = maxLifeMs, !.aoeRadius = aoeRadius,
            !.lifeMs = 0, !.alive = TRUE, !.pooled = FALSE]

(* Projectile.kill *)
ProjectileKill(p) == IF ~p.alive THEN p ELSE [p EXCEPT !.alive = FALSE]

(* Projectile.updateFixed, without the motion *)
ProjectileUpdateFixed(p) ==
  IF ~p.alive \/ p.pooled THEN p
  ELSE LET q == [p EXCEPT !.lifeMs = @ + FIXED_DT]
       IN IF q.lifeMs > q.maxLifeMs THEN ProjectileKill(q) ELSE q

----------------------------------------------------------------------------
(* The scene as one record; the operators below map a scene to the set of  *)
(* scenes a piece of code can leave, one per outcome of its random draws   *)
(* and distance tests.                                                     *)

Scene ==
  [phase |-> phase, accumulator |-> accumulator, steps |-> steps, pc |-> pc,
   F |-> F, entities |-> entities, spatialHash |-> spatialHash,
   activeFighters |-> activeFighters, fighterMap |-> fighterMap,
   fighterPool |-> fighterPool, fCreated |-> fCreated,
   P |-> P, activeProjectiles |-> activeProjectiles,
   projectilePool |-> projectilePool, pCreated |-> pCreated,
   tempAllies |-> tempAllies, tempEnemies |-> tempEnemies,
   waveNumber |-> waveNumber, waveActive |-> waveActive,
   waveSpawnsRemaining |-> waveSpawnsRemaining,
   waveSpawnCdMs |-> waveSpawnCdMs, betweenWaveCdMs |-> betweenWaveCdMs,
   seenDead |-> seenDead, killsToday |-> killsToday, timers |-> timers,
   genCount |-> genCount, nEvents |-> nEvents, hist |-> hist]

Becomes(s) ==
  /\ phase' = s.phase /\ accumulator' = s.accumulator /\ steps' = s.steps
  /\ pc' = s.pc /\ F' = s.F /\ activeFighters' = s.activeFighters
  /\ entities' = s.entities /\ spatialHash' = s.spatialHash
  /\ fighterMap' = s.fighterMap /\ fighterPool' = s.fighterPool
  /\ fCreated' = s.fCreated /\ P' = s.P
  /\ activeProjectiles' = s.activeProjectiles
  /\ projectilePool' = s.projectilePool /\ pCreated' = s.pCreated
  /\ tempAllies' = s.tempAllies /\ tempEnemies' = s.tempEnemies
  /\ waveNumber' = s.waveNumber /\ waveActive' = s.waveActive
  /\ waveSpawnsRemaining' = s.waveSpawnsRemaining
  /\ waveSpawnCdMs' = s.waveSpawnCdMs /\ betweenWaveCdMs' = s.betweenWaveCdMs
  /\ seenDead' = s.seenDead /\ killsToday' = s.killsToday
  /\ timers' = s.timers /\ genCount' = s.genCount /\ nEvents' = s.nEvents
  /\ hist' = s.hist

Front(q) == SubSeq(q, 1, Len(q) - 1)
Last(q) == q[Len(q)]
Range(q) == {q[i] : i \in 1 .. Len(q)}

(* AcquireFighter constructing an object whatever the free list holds *)
AcquireFighter_alwaysCreates(s) ==
  IF s.fCreated < s.hist.cap.objects
  THEN {<<s.fCreated + 1, [s EXCEPT !.fCreated = s.fCreated + 1,
                                    !.F[s.fCreated + 1] = FighterReset(NewFighter)]>>}
  ELSE {}

(* ObjectPool.acquire on the fighter pool: pop the free list or construct; *)
(* then the reset function.  No scene when the model has no object left.   *)
AcquireFighter(s) ==
  IF s.fighterPool # <<>>
  THEN LET o == Last(s.fighterPool)
       IN {<<o, [s EXCEPT !.fighterPool = Front(@),
                          !.F[o] = FighterReset(@)]>>}
  ELSE IF s.fCreated < s.hist.cap.objects
  THEN LET o == s.fCreated + 1
       IN {<<o, [s EXCEPT !.fCreated = o, !.F[o] = FighterReset(NewFighter)]>>}
  ELSE {}

(* ObjectPool.release *)
ReleaseFighter(s, o) == [s EXCEPT !.fighterPool = Append(@, o)]

AcquireProjectile(s) ==
  IF s.projectilePool # <<>>
  THEN LET o == Last(s.projectilePool)
       IN {<<o, [s EXCEPT !.projectilePool = Front(@),
                          !.P[o] = ProjectileReset(@)]>>}
  ELSE IF s.pCreated < MaxProjectiles
  THEN LET o == s.pCreated + 1
       IN {<<o, [s EXCEPT !.pCreated = o, !.P[o] = ProjectileReset(NewProjectile)]>>}
  ELSE {}

ReleaseProjectile(s, o) == [s EXCEPT !.projectilePool = Append(@, o)]

(* spawnKind's optional arguments: id NoId and level 0 when absent; a scale *)
(* is the fraction num / den, den 0 when absent.                            *)
Opts(id, name, level, hpNum, hpDen, atkNum, atkDen) ==
  [id |-> id, name |-> name, level |-> level,
   hpNum |-> hpNum, hpDen |-> hpDen, atkNum |-> atkNum, atkDen |-> atkDen]

NoName == <<"", 0>>

(* spawnKind 827: the id given, or a fresh random one *)
SpawnId(s, o) == IF o.id = NoId THEN <<"g", s.genCount + 1>> ELSE o.id

(* spawnKind 828 *)
SpawnName(kind, o) == IF o.name = NoName THEN DisplayName(kind) ELSE o.name

(* spawnKind 838 *)
ApplyLevel(f, o) == IF o.level # 0 THEN [f EXCEPT !.level = o.level] ELSE f

(* spawnKind 839-842 *)
ApplyHpScale(f, team, o) ==
  IF o.hpDen # 0 /\ team = "B"
  THEN [f EXCEPT !.maxHP = (f.maxHP * o.hpNum) \div o.hpDen,
                 !.hp = (f.maxHP * o.hpNum) \div o.hpDen]
  ELSE f

(* spawnKind 843-845 *)
ApplyAtkScale(f, team, o) ==
  IF o.atkDen # 0 /\ team = "B"
  THEN [f EXCEPT !.atk = Max(1, (f.atk * o.atkNum) \div o.atkDen)]
  ELSE f

(* spawnKind 830-831, 838-851 on the acquired object ob of the scene t *)
PlaceFighter(t, ob, id, name, team, kind, o, aiCd) ==
  [t EXCEPT !.F[ob] = ApplyAtkScale(ApplyHpScale(ApplyLevel(
                        FighterInit(@, id, name, team, kind, aiCd), o), team, o), team, o),
            !.activeFighters = Append(@, ob),
            !.fighterMap[id] = ob,
            !.genCount = IF o.id = NoId THEN @ + 1 ELSE @,
            !.hist.credits[ob] = 0,
            !.hist.processed[ob] = 0,
            !.hist.landed[ob] = 0,
            !.hist.passes[ob] = 0]

(* SpawnKind with the pool's object acquired before the request is         *)
(* examined: a rejected request leaves the object outside pool and roster  *)
SpawnKind_acquiresFirst(s, team, kind, o) ==
  IF kind \notin Kinds
  THEN {[a[2] EXCEPT !.hist.rejected.unknown = @ + 1] : a \in AcquireFighter(s)}
  ELSE IF team = "A" /\ UNIT_DEFS[kind].side = "enemy"
  THEN {[a[2] EXCEPT !.hist.rejected.enemyOnA = @ + 1] : a \in AcquireFighter(s)}
  ELSE IF team = "B" /\ UNIT_DEFS[kind].side = "player"
  THEN {[a[2] EXCEPT !.hist.rejected.playerOnB = @ + 1] : a \in AcquireFighter(s)}
  ELSE IF o.id = NoId /\ s.genCount >= s.hist.cap.ids THEN {}
  ELSE UNION {
         { PlaceFighter(a[2], a[1], SpawnId(s, o), SpawnName(kind, o), team, kind, o, aiCd)
           : aiCd \in InitAiCdDraws }
         : a \in AcquireFighter(s) }

(* SceneBattle.spawnKind; no scene when the model has no id or object left. *)
(* History: the rejections are counted by their reason                      *)
SpawnKind(s, team, kind, o) ==
  IF kind \notin Kinds THEN {[s EXCEPT !.hist.rejected.unknown = @ + 1]}
  ELSE IF team = "A" /\ UNIT_DEFS[kind].side = "enemy"
  THEN {[s EXCEPT !.hist.rejected.enemyOnA = @ + 1]}
  ELSE IF team = "B" /\ UNIT_DEFS[kind].side = "player"
  THEN {[s EXCEPT !.hist.rejected.playerOnB = @ + 1]}
  ELSE IF o.id = NoId /\ s.genCount >= s.hist.cap.ids THEN {}
  ELSE UNION {
         { PlaceFighter(a[2], a[1], SpawnId(s, o), SpawnName(kind, o), team, kind, o, aiCd)
           : aiCd \in InitAiCdDraws }
         : a \in AcquireFighter(s) }

----------------------------------------------------------------------------
(* The fixed tick: SceneBattle.fixedUpdate and what it calls *)

IsAlive(s, o) == ~s.F[o].dead /\ ~s.F[o].pooled

RECURSIVE SelectSeqIn(_, _, _)
(* The subsequence of q whose elements are in the set keep *)
SelectSeqIn(q, keep, i) ==
  IF i > Len(q) THEN <<>>
  ELSE (IF q[i] \in keep THEN <<q[i]>> ELSE <<>>) \o SelectSeqIn(q, keep, i + 1)

(* fixedUpdate 398-412: the snapshot of the living fighters by team *)
Snapshot(s) ==
  LET alive == {o \in Obj : IsAlive(s, o)}
  IN [s EXCEPT
        !.tempAllies = SelectSeqIn(s.activeFighters,
                                   {o \in alive : s.F[o].team = "A"}, 1),
        !.tempEnemies = SelectSeqIn(s.activeFighters,
                                    {o \in alive : s.F[o].team # "A"}, 1)]

(* fixedUpdate 405-412: tempFighters, the living fighters in roster order *)
TempFighters(s) ==
  SelectSeqIn(s.activeFighters, Range(s.tempAllies) \cup Range(s.tempEnemies), 1)

(* SceneBattle.fireProjectile *)
FireProjectile(s, o, kind) ==
  LET f == s.F[o]
      d == Defn(f)
      radius == IF d.pradius # 0 THEN d.pradius
                ELSE IF kind = "magic" THEN 14 ELSE 10
  IN { LET po == a[1]
           t == a[2]
       IN [t EXCEPT !.P[po] = ProjectileInit(@, f.team, kind, f.atk + f.level * 2,
                                             f.id, radius, PROJ_MAX_LIFE, d.aoe),
                    !.activeProjectiles = Append(@, po),
                    !.hist.hits[po] = 0]
       : a \in AcquireProjectile(s) }

(* hp fraction of a below that of b *)
PctLess(a, b) == a.hp * b.maxHP < b.hp * a.maxHP

RECURSIVE BestAlly_picksFirst(_, _, _, _, _)
(* BestAlly keeping the first wounded ally in range it meets *)
BestAlly_picksFirst(s, allies, inRange, i, best) ==
  IF i > Len(allies) THEN best
  ELSE LET a == allies[i]
           better == a \in inRange /\ best = 0 /\ s.F[a].hp < s.F[a].maxHP
       IN BestAlly_picksFirst(s, allies, inRange, i + 1, IF better THEN a ELSE best)

RECURSIVE BestAlly(_, _, _, _, _)
(* tryAttack 537-551: the wounded ally with the lowest hp fraction among   *)
(* the allies within range (the set inRange), 0 when there is none         *)
BestAlly(s, allies, inRange, i, best) ==
  IF i > Len(allies) THEN best
  ELSE LET a == allies[i]
           better == /\ a \in inRange
                     /\ IF best = 0 THEN s.F[a].hp < s.F[a].maxHP
                        ELSE PctLess(s.F[a], s.F[best])
       IN BestAlly(s, allies, inRange, i + 1, IF better THEN a ELSE best)

(* History of tryAttack 534-566: the healer o, the allies found within its *)
(* range, the fighters before (s) and after (u) its attempt                *)
HealAttempt(s, o, inRange, u) ==
  [u EXCEPT !.hist.heal = [healer |-> o, inRange |-> inRange,
                           before |-> s.F, after |-> u.F]]

(* SceneBattle.tryAttack *)
TryAttack(s, o, t) ==
  LET f == s.F[o]
      role == Defn(f).role
      after ==
        IF role = "melee"
        THEN {[s EXCEPT !.F[o] = Enter(@, "windup"),
                        !.F[t].lastHitBy = f.id]}
        ELSE IF role \in {"ranged", "magic"}
        THEN FireProjectile([s EXCEPT !.F[o] = Enter(@, "windup")], o,
                            IF role = "ranged" THEN "arrow" ELSE "magic")
        ELSE
          LET allies == IF f.team = "A" THEN s.tempAllies ELSE s.tempEnemies
              cand == {a \in Range(allies) : a # o /\ ~s.F[a].dead}
          IN { LET b == BestAlly(s, allies, inRange, 1, 0)
               IN HealAttempt(s, o, inRange,
                    IF b # 0
                    THEN [s EXCEPT !.F[o] = Enter(@, "windup"),
                                   !.F[b] = Heal(@, 16 + f.level * 2)]
                    ELSE s)
               : inRange \in SUBSET cand }
  IN { [u EXCEPT !.F[o].attackCdMs = Defn(f).attackCooldownMs + j]
       : u \in after, j \in AttackCdJitter }

(* The outcomes of the two range tests of updateFighter 488-490 *)
RangeClasses(f) ==
  (IF Defn(f).minRange > 0 THEN {"close"} ELSE {}) \cup {"out", "in"}

(* A melee windup ends on a living target: f0 before updateFixed, f1 after *)
Swung(s, f0, f1) ==
  /\ f0.state = "windup" /\ f1.state = "recover"
  /\ Defn(f0).role = "melee"
  /\ f0.target # 0 /\ ~s.F[f0.target].dead

(* updateFighter 453: the fighter o becomes f1, and has moved if it had a   *)
(* velocity                                                                *)
AfterUpdateFixed(s, o, f1) ==
  [s EXCEPT !.F[o] = f1,
            !.hist.moved = IF s.F[o].vel THEN @ \cup {o} ELSE @,
            !.hist.landed[o] = IF Swung(s, s.F[o], f1) THEN Min(@ + 1, MaxCount) ELSE @]

(* updateFighter 460, 464 *)
Opponents(s, o) == IF s.F[o].team = "A" THEN s.tempEnemies ELSE s.tempAllies

(* updateFighter 516-518: in range, the attack *)
Engage(s, o, t) ==
  IF s.F[o].attackCdMs <= 0 /\ s.F[o].state = "idle" THEN TryAttack(s, o, t) ELSE {s}

(* updateFighter 509-512 *)
SlowDown(s, o) ==
  IF s.F[o].state \notin {"windup", "recover"}
  THEN [s EXCEPT !.F[o] = Enter(@, "idle")] ELSE s

(* updateFighter 493-519 with the nearest opponent t in range class rc; the *)
(* velocity set at 497-498 and 504-505 points along the line to the target *)
(* (two fighters at the very same point, which would leave it zero, are    *)
(* left out)                                                               *)
MoveOrAttack(s, o, t, rc) ==
  IF rc = "close" \/ (rc = "out" /\ Defn(s.F[o]).role # "healer")
  THEN {[s EXCEPT !.F[o] = Enter([@ EXCEPT !.vel = TRUE], "chase")]}
  ELSE Engage(SlowDown(s, o), o, t)

(* updateFighter 467-482: the loop has read the position of every opponent *)
(* and found t the nearest.  History: staleRead when one of the opponents  *)
(* has moved earlier in this tick                                          *)
LockTarget(s, o, t) ==
  [s EXCEPT !.F[o].target = t,
            !.hist.staleRead = @ \/ (Range(Opponents(s, o)) \cap s.hist.moved # {}),
            !.hist.landed[o] = IF t # s.F[o].target THEN 0 ELSE @]

(* Where the fighter object o stands in a scene that places its fighters:   *)
(* the first MaxEntities objects at their entities, the others at the       *)
(* origin                                                                   *)
Pos(s, o) == IF o \in 1 .. MaxEntities THEN s.entities[o] ELSE [id |-> o, x |-> 0, y |-> 0]

(* updateFighter 470-472 *)
DistSq(s, o, e) ==
  (Pos(s, e).x - Pos(s, o).x) * (Pos(s, e).x - Pos(s, o).x)
    + (Pos(s, e).y - Pos(s, o).y) * (Pos(s, e).y - Pos(s, o).y)

RECURSIVE Nearest_lastAmongEqual(_, _, _, _, _)
(* The nearest-target loop with <= for < *)
Nearest_lastAmongEqual(s, o, enemies, i, target) ==
  IF i > Len(enemies) THEN target
  ELSE Nearest_lastAmongEqual(s, o, enemies, i + 1,
         IF i = 1 \/ DistSq(s, o, enemies[i]) <= DistSq(s, o, target)
         THEN enemies[i] ELSE target)

RECURSIVE Nearest(_, _, _, _, _)
(* updateFighter 466-477: the loop from index i, target the best so far;    *)
(* bestDistSq starts at Number.MAX_VALUE, so that the first opponent is     *)
(* always taken                                                            *)
Nearest(s, o, enemies, i, target) ==
  IF i > Len(enemies) THEN target
  ELSE Nearest(s, o, enemies, i + 1,
         IF i = 1 \/ DistSq(s, o, enemies[i]) < DistSq(s, o, target)
         THEN enemies[i] ELSE target)

(* The targets the loop can find: the nearest where the scene places its    *)
(* fighters, any opponent where it leaves the positions open                *)
Targets(s, o) ==
  IF s.hist.placed THEN {Nearest(s, o, Opponents(s, o), 1, Opponents(s, o)[1])}
  ELSE Range(Opponents(s, o))

(* updateFighter 463-519 *)
FindAndAct(s, o) ==
  IF Opponents(s, o) = <<>> THEN {s}
  ELSE UNION { MoveOrAttack(LockTarget(s, o, t), o, t, rc)
               : t \in Targets(s, o), rc \in RangeClasses(s.F[o]) }

(* updateFighter 455-519 *)
FighterAi(s, o) ==
  IF s.F[o].aiCdMs > 0 \/ s.F[o].staggerMs > 0 THEN {s}
  ELSE IF s.F[o].state \in {"dead", "windup", "recover"} THEN {s}
  ELSE UNION {FindAndAct([s EXCEPT !.F[o].aiCdMs = c], o) : c \in AiCdDraws}

(* SceneBattle.updateFighter *)
UpdateFighter(s, o) == FighterAi(AfterUpdateFixed(s, o, FighterUpdateFixed(s.F[o])), o)

RECURSIVE UpdateFighters(_, _, _)
(* fixedUpdate 421-423 *)
UpdateFighters(ss, list, i) ==
  IF i > Len(list) THEN ss
  ELSE UpdateFighters(UNION {UpdateFighter(s, list[i]) : s \in ss}, list, i + 1)

(* History of the damage a projectile p deals: the fighter f0 has become   *)
(* f1.  foul tells that hp was taken from a fighter of the projectile's     *)
(* team or from a dead one; single and area tell that hp was taken in the   *)
(* single-target branch and in the area branch                              *)
ShotNoted(h, p, f0, f1) ==
  IF f1.hp >= f0.hp THEN h
  ELSE [foul |-> h.foul \/ f0.team = p.team \/ f0.dead,
        single |-> h.single \/ ~(p.kind = "magic" /\ p.aoeRadius # 0),
        area |-> h.area \/ (p.kind = "magic" /\ p.aoeRadius # 0)]

(* One hit of checkProjectileCollisions 657-676 on the victim v; targets is *)
(* the set the area query returns among the living opposing fighters.       *)
RECURSIVE DamageAll(_, _, _, _)
DamageAll(s, po, list, i) ==
  IF i > Len(list) THEN {s}
  ELSE LET t == list[i]
           rolls == IF s.F[t].canBlock THEN BOOLEAN ELSE {FALSE}
       IN UNION { DamageAll([s EXCEPT !.F[t] = TakeDamage([@ EXCEPT !.lastHitBy = s.P[po].ownerId],
                                                          s.P[po].dmg, r),
                                      !.hist.shot = ShotNoted(@, s.P[po], s.F[t],
                                                      TakeDamage(s.F[t], s.P[po].dmg, r))],
                            po, list, i + 1)
                  : r \in rolls }

(* checkProjectileCollisions scanning the whole snapshot, both teams *)
CheckProjectileCollisions_bothTeams(s, po) ==
  LET p == s.P[po]
      snapshot == s.tempAllies \o s.tempEnemies
      live == {v \in Range(snapshot) : ~s.F[v].dead}
      Hit(v) ==
        LET s1 == [s EXCEPT !.F[v].lastHitBy = p.ownerId]
            area == {t \in Range(snapshot) : s1.F[t].team # p.team /\ ~s1.F[t].dead}
            after ==
              IF p.kind = "magic" /\ p.aoeRadius # 0
              THEN UNION { DamageAll(s1, po, SelectSeqIn(snapshot, T, 1), 1)
                           : T \in SUBSET area }
              ELSE DamageAll(s1, po, <<v>>, 1)
        IN {[u EXCEPT !.P[po] = ProjectileKill(@),
                      !.hist.hits[po] = @ + 1,
                      !.hist.lateHit = @ \/ ~p.alive] : u \in after}
  IN {s} \cup UNION {Hit(v) : v \in live}

(* SceneBattle.checkProjectileCollisions: no victim overlaps, or the first  *)
(* overlapping living victim is v.  History: hits counts the hits of the   *)
(* flight, lateHit tells that a projectile no longer alive has hit         *)
CheckProjectileCollisions(s, po) ==
  LET p == s.P[po]
      victims == IF p.team = "A" THEN s.tempEnemies ELSE s.tempAllies
      live == {v \in Range(victims) : ~s.F[v].dead}
      snapshot == s.tempAllies \o s.tempEnemies
      Hit(v) ==
        LET s1 == [s EXCEPT !.F[v].lastHitBy = p.ownerId]
            area == {t \in Range(snapshot) : s1.F[t].team # p.team /\ ~s1.F[t].dead}
            after ==
              IF p.kind = "magic" /\ p.aoeRadius # 0
              THEN UNION { DamageAll(s1, po, SelectSeqIn(snapshot, T, 1), 1)
                           : T \in {X \in SUBSET area : v \in X} }
              ELSE DamageAll(s1, po, <<v>>, 1)
        IN {[u EXCEPT !.P[po] = ProjectileKill(@),
                      !.hist.hits[po] = @ + 1,
                      !.hist.lateHit = @ \/ ~p.alive] : u \in after}
  IN {s} \cup UNION {Hit(v) : v \in live}

(* The projectile loop without its two alive tests *)
UpdateProjectile_deadOnesToo(s, po) ==
  CheckProjectileCollisions([s EXCEPT !.P[po] = ProjectileUpdateFixed(@)], po)

(* fixedUpdate 429-437 for the projectile at index i *)
UpdateProjectile(s, po) ==
  IF ~s.P[po].alive THEN {s}
  ELSE LET s1 == [s EXCEPT !.P[po] = ProjectileUpdateFixed(@)]
       IN IF s1.P[po].alive THEN CheckProjectileCollisions(s1, po) ELSE {s1}

RECURSIVE UpdateProjectiles(_, _, _)
UpdateProjectiles(ss, list, i) ==
  IF i > Len(list) THEN ss
  ELSE UpdateProjectiles(UNION {UpdateProjectile(s, list[i]) : s \in ss}, list, i + 1)

RECURSIVE CleanupFrom(_, _)
(* SceneBattle.cleanupProjectiles: from the last index down *)
CleanupFrom(s, i) ==
  IF i < 1 THEN s
  ELSE LET po == s.activeProjectiles[i]
       IN IF ~s.P[po].alive
          THEN CleanupFrom(
                 ReleaseProjectile(
                   [s EXCEPT !.activeProjectiles =
                        SubSeq(@, 1, i - 1) \o SubSeq(@, i + 1, Len(@))], po),
                 i - 1)
          ELSE CleanupFrom(s, i - 1)

CleanupProjectiles(s) == CleanupFrom(s, Len(s.activeProjectiles))

(* SceneBattle.creditKillIfAny *)
CreditKillIfAny(s, v) ==
  LET killerId == s.F[v].lastHitBy
      s1 == [s EXCEPT !.hist.credits[v] = @ + 1]
  IN IF killerId = NoId THEN s1
     ELSE LET k == s.fighterMap[killerId]
          IN IF k = 0 \/ s.F[k].team # "A" THEN s1
             ELSE [s1 EXCEPT !.killsToday[s.F[k].name] = @ + 1]

(* NewlyDead without the seenDead test *)
NewlyDead_everyTick(s, o) == s.F[o].dead

(* processDeaths 707: a dead fighter whose id has not been seen *)
NewlyDead(s, o) == s.F[o].dead /\ s.F[o].id \notin s.seenDead

(* processDeaths 708-715 for the fighter o *)
ProcessDeath(s, o) ==
  [CreditKillIfAny([s EXCEPT !.seenDead = @ \cup {s.F[o].id},
                             !.hist.processed[o] = @ + 1], o)
     EXCEPT !.timers = Append(@, [id |-> s.F[o].id, obj |-> o])]

(* History: one more pass of processDeaths has met the fighter o dead *)
PassNoted(s, o) ==
  IF s.F[o].dead THEN [s EXCEPT !.hist.passes[o] = Min(@ + 1, MaxCount)] ELSE s

RECURSIVE ProcessDeathsFrom(_, _)
(* SceneBattle.processDeaths, from index i of the roster *)
ProcessDeathsFrom(s, i) ==
  IF i > Len(s.activeFighters) THEN s
  ELSE ProcessDeathsFrom(
         IF NewlyDead(s, s.activeFighters[i])
         THEN ProcessDeath(PassNoted(s, s.activeFighters[i]), s.activeFighters[i])
         ELSE PassNoted(s, s.activeFighters[i]),
         i + 1)

ProcessDeaths(s) == ProcessDeathsFrom(s, 1)

----------------------------------------------------------------------------
(* Wave director *)

(* enemyPoolForWave 914-917: the power score, times 100 *)
Score(k) ==
  LET d == UNIT_DEFS[k]
  IN d.atk * 100 + d.maxHP * 20 + d.range * 2 + d.speed * 10

EnemyIdx == {i \in 1 .. Len(KindOrder) : UNIT_DEFS[KindOrder[i]].side = "enemy"}

(* Position of the enemy kind at index i after the stable ascending sort *)
RankOf(i) ==
  1 + Cardinality({j \in EnemyIdx :
        \/ Score(KindOrder[j]) < Score(KindOrder[i])
        \/ (Score(KindOrder[j]) = Score(KindOrder[i]) /\ j < i)})

(* enemyPoolForWave taking the kinds from the strong end of the sorted list *)
EnemyPoolForWave_strongestFirst(wave) ==
  LET unlocked == Min(Cardinality(EnemyIdx), 1 + (wave - 1) \div 2)
  IN {KindOrder[i] : i \in {j \in EnemyIdx : RankOf(j) > Cardinality(EnemyIdx) - unlocked}}

(* SceneBattle.enemyPoolForWave, as the set of unlocked kinds *)
EnemyPoolForWave(wave) ==
  LET unlocked == Min(Cardinality(EnemyIdx), 1 + (wave - 1) \div 2)
  IN {KindOrder[i] : i \in {j \in EnemyIdx : RankOf(j) <= unlocked}}

(* SceneBattle.spawnRandomEnemyForWave; the scales 1 + 0.06 (wave - 1) and *)
(* 1 + 0.04 (wave - 1) as exact fractions                                  *)
SpawnRandomEnemyForWave(s, wave) ==
  UNION { SpawnKind(s, "B", kind,
                    Opts(NoId, DisplayName(kind), 1 + (wave - 1) \div 2,
                         100 + 6 * (wave - 1), 100, 100 + 4 * (wave - 1), 100))
          : kind \in EnemyPoolForWave(wave) }

BossKinds == {"elite_orc", "orc_rider", "greatsword_skeleton", "armored_orc"}

(* spawnBossForWave with a player-side kind in the boss list *)
SpawnBossForWave_playerKind(s, wave) ==
  UNION { SpawnKind(s, "B", kind,
                    Opts(NoId, <<kind, 1>>, 2 + wave \div 2,
                         (100 + 6 * (wave - 1)) * 30, 1000,
                         (100 + 4 * (wave - 1)) * 15, 1000))
          : kind \in {"knight"} }

(* SceneBattle.spawnBossForWave: hp x 3.0, attack x 1.5 on the wave scaling *)
SpawnBossForWave(s, wave) ==
  UNION { SpawnKind(s, "B", kind,
                    Opts(NoId, <<kind, 1>>, 2 + wave \div 2,
                         (100 + 6 * (wave - 1)) * 30, 1000,
                         (100 + 4 * (wave - 1)) * 15, 1000))
          : kind \in BossKinds }

(* computeWaveEnemyCount without the wave bonus *)
ComputeWaveEnemyCount_noBonus(s) ==
  Max(1, Len(s.tempAllies)) * BASE_PER_PLAYER

(* SceneBattle.computeWaveEnemyCount *)
ComputeWaveEnemyCount(s) ==
  Max(1, Len(s.tempAllies)) * BASE_PER_PLAYER + (s.waveNumber - 1) * WAVE_BONUS

(* History of the wave that startNextWave has started from s: s2 is the     *)
(* scene after line 762, u the scene at its return                         *)
WaveStarted(s, s2, u) ==
  [u EXCEPT !.hist.wave =
     [number |-> u.waveNumber, players |-> Len(s.tempAllies),
      alive |-> Cardinality({i \in 1 .. Len(s.activeFighters) :
                  s.F[s.activeFighters[i]].team = "A" /\ IsAlive(s, s.activeFighters[i])}),
      count |-> s2.waveSpawnsRemaining, quota |-> u.waveSpawnsRemaining,
      bosses |-> Len(u.activeFighters) - Len(s.activeFighters),
      boss |-> IF Len(u.activeFighters) > Len(s.activeFighters)
               THEN u.F[Last(u.activeFighters)].kind ELSE "none",
      spawned |-> 0, bursts |-> 0, largest |-> 0, since |-> 0, pool |-> {},
      gap |-> BURST_INTERVAL_MS + FIXED_DT,
      before |-> s.hist.wave.number, countBefore |-> s.hist.wave.count,
      playersBefore |-> s.hist.wave.players]]

(* History of a burst of updateWaves that led from s to u *)
BurstDone(s, u) ==
  [u EXCEPT !.hist.wave.spawned = @ + Len(u.activeFighters) - Len(s.activeFighters),
            !.hist.wave.bursts = @ + 1,
            !.hist.wave.pool = EnemyPoolForWave(s.waveNumber),
            !.hist.wave.largest = Max(@, Len(u.activeFighters) - Len(s.activeFighters)),
            !.hist.wave.gap = IF s.hist.wave.bursts > 0
                              THEN Min(@, s.hist.wave.since) ELSE @,
            !.hist.wave.since = 0]

(* startNextWave without the test of waveActive *)
StartNextWave_whileActive(s) ==
  IF s.waveNumber >= s.hist.cap.waves THEN {}
  ELSE
    LET s1 == [s EXCEPT !.waveNumber = @ + 1, !.waveActive = TRUE]
        s2 == [s1 EXCEPT !.waveSpawnsRemaining = ComputeWaveEnemyCount(s1),
                         !.waveSpawnCdMs = 0]
    IN IF s2.waveNumber % BOSS_EVERY = 0
       THEN {WaveStarted(s, s2, [u EXCEPT !.waveSpawnsRemaining = Max(0, @ - 2)])
             : u \in SpawnBossForWave(s2, s2.waveNumber)}
       ELSE {WaveStarted(s, s2, s2)}

(* SceneBattle.startNextWave; no scene once the run's last wave has started; *)
(* hist.wave records the wave as it started                                 *)
StartNextWave(s) ==
  IF s.waveActive THEN {s}
  ELSE IF s.waveNumber >= s.hist.cap.waves THEN {}
  ELSE
    LET s1 == [s EXCEPT !.waveNumber = @ + 1, !.waveActive = TRUE]
        s2 == [s1 EXCEPT !.waveSpawnsRemaining = ComputeWaveEnemyCount(s1),
                         !.waveSpawnCdMs = 0]
    IN IF s2.waveNumber % BOSS_EVERY = 0
       THEN {WaveStarted(s, s2, [u EXCEPT !.waveSpawnsRemaining = Max(0, @ - 2)])
             : u \in SpawnBossForWave(s2, s2.waveNumber)}
       ELSE {WaveStarted(s, s2, s2)}

(* SceneBattle.onWaveCleared *)
OnWaveCleared(s) ==
  [s EXCEPT !.waveActive = FALSE, !.betweenWaveCdMs = BETWEEN_WAVE_MS,
            !.hist.sinceClear = 0, !.hist.cleared = s.waveNumber]

RECURSIVE SpawnBurst(_, _, _)
SpawnBurst(ss, wave, n) ==
  IF n = 0 THEN ss
  ELSE SpawnBurst(UNION {SpawnRandomEnemyForWave(s, wave) : s \in ss}, wave, n - 1)

(* updateWaves 736: the completion test of an active wave *)
WaveComplete(s) == s.tempEnemies = <<>> /\ s.waveSpawnsRemaining <= 0

(* updateWaves spawning BURST_SIZE enemies in every burst *)
UpdateWaves_fullBursts(s) ==
  LET playersAlive == s.tempAllies # <<>>
  IN IF s.waveActive
     THEN LET burst == BURST_SIZE
              spawned ==
                IF s.waveSpawnsRemaining > 0 /\ s.waveSpawnCdMs <= 0
                THEN {BurstDone(s, [u EXCEPT !.waveSpawnsRemaining = @ - burst,
                                             !.waveSpawnCdMs = BURST_INTERVAL_MS])
                      : u \in SpawnBurst({s}, s.waveNumber, burst)}
                ELSE {s}
          IN {IF WaveComplete(u) THEN OnWaveCleared(u) ELSE u : u \in spawned}
     ELSE IF s.betweenWaveCdMs <= 0 /\ playersAlive THEN StartNextWave(s)
     ELSE {s}

(* SceneBattle.updateWaves *)
UpdateWaves(s) ==
  LET playersAlive == s.tempAllies # <<>>
  IN IF s.waveActive
     THEN LET burst == Min(BURST_SIZE, s.waveSpawnsRemaining)
              spawned ==
                IF s.waveSpawnsRemaining > 0 /\ s.waveSpawnCdMs <= 0
                THEN {BurstDone(s, [u EXCEPT !.waveSpawnsRemaining = @ - burst,
                                             !.waveSpawnCdMs = BURST_INTERVAL_MS])
                      : u \in SpawnBurst({s}, s.waveNumber, burst)}
                ELSE {s}
          IN {IF WaveComplete(u) THEN OnWaveCleared(u) ELSE u : u \in spawned}
     ELSE IF s.betweenWaveCdMs <= 0 /\ playersAlive THEN StartNextWave(s)
     ELSE {s}

(* SceneBattle.onBattleStart *)
OnBattleStart(s) ==
  StartNextWave([s EXCEPT !.F = [o \in Obj |->
                    IF o \in Range(s.activeFighters)
                    THEN Enter([s.F[o] EXCEPT !.vel = TRUE], "chase") ELSE s.F[o]]])

(* fixedUpdate 391-396: the day key may have changed (dayRoll); the wave   *)
(* timers count down                                                       *)
TickTimers(s, dayRoll) ==
  [s EXCEPT !.killsToday = IF dayRoll THEN [n \in NamesDom |-> 0] ELSE @,
            !.waveSpawnCdMs = DecIfPos(@),
            !.betweenWaveCdMs = DecIfPos(@),
            !.hist.sinceClear = Min(@ + FIXED_DT, BETWEEN_WAVE_MS),
            !.hist.wave.since = Min(@ + FIXED_DT, BURST_INTERVAL_MS + FIXED_DT),
            !.hist.moved = {}, !.hist.staleRead = FALSE,
            !.hist.heal = [healer |-> 0, inRange |-> {}, before |-> s.F, after |-> s.F],
            !.hist.ticks = @ + 1]

DayRolls(s) == IF \E n \in NamesDom : s.killsToday[n] # 0 THEN BOOLEAN ELSE {FALSE}

(* SceneBattle.fixedUpdate *)
FixedUpdate(s) ==
  LET s1s == {Snapshot(TickTimers(s, r)) : r \in DayRolls(s)}
      s2s == UNION {UpdateFighters({u}, TempFighters(u), 1) : u \in s1s}
      s3s == UNION {UpdateProjectiles({u}, u.activeProjectiles, 1) : u \in s2s}
      s4s == {ProcessDeaths(CleanupProjectiles(u)) : u \in s3s}
  IN UNION {UpdateWaves(u) : u \in s4s}

----------------------------------------------------------------------------
(* Handlers that run between ticks *)

RECURSIVE SpawnUsers(_, _, _)
(* handleWS 311-315 *)
SpawnUsers(ss, ids, i) ==
  IF i > Len(ids) THEN ss
  ELSE SpawnUsers(
         UNION {SpawnKind(s, "A", "soldier",
                          Opts(ids[i], UserName(ids[i]), 0, 0, 0, 0, 0)) : s \in ss},
         ids, i + 1)

(* handleWS, msg.type = 'state' *)
OnState(s, ph, ids) ==
  LET ss == SpawnUsers({[s EXCEPT !.phase = ph]}, ids, 1)
  IN IF ph = "BATTLE" THEN UNION {OnBattleStart(u) : u \in ss} ELSE ss

(* handleWS, msg.type = 'phase' *)
OnPhase(s, ph) ==
  LET s1 == [s EXCEPT !.phase = ph]
  IN IF ph = "BATTLE" THEN OnBattleStart(s1) ELSE {s1}

(* handleWS, msg.type = 'joined' *)
OnJoined(s, id) ==
  UNION {IF u.phase # "BATTLE"
         THEN OnBattleStart([u EXCEPT !.phase = "BATTLE"]) ELSE {u}
         : u \in SpawnKind(s, "A", "soldier", Opts(id, UserName(id), 0, 0, 0, 0, 0))}

(* SceneBattle.applyHearts; the random nudge leaves a velocity *)
ApplyHearts(s, count) ==
  LET heal == Min(8, 2 + count \div 30)
  IN [s EXCEPT !.F = [o \in Obj |->
        IF o \in Range(s.activeFighters) /\ s.F[o].team = "A" /\ ~s.F[o].dead
        THEN Heal([s.F[o] EXCEPT !.vel = TRUE], heal) ELSE s.F[o]]]

GiftKinds(tier) ==
  IF tier = 1 THEN {"soldier", "swordsman", "archer"}
  ELSE IF tier = 2 THEN {"knight", "lancer", "armored_axeman"}
  ELSE IF tier = 3 THEN {"wizard", "priest", "knight_templar"}
  ELSE IF tier = 4 THEN {"werewolf", "werebear", "knight_templar"}
  ELSE {"soldier"}

(* SceneBattle.simulateGiftTier *)
SimulateGiftTier(s, tier) ==
  UNION {SpawnKind(s, "A", k, Opts(NoId, DisplayName(k), 0, 0, 0, 0, 0))
         : k \in GiftKinds(tier)}

(* SceneBattle.triggerGift; tier 0 stands for a type naming no tier *)
TriggerGift(s, tier) ==
  IF tier \in 1 .. 4 THEN SimulateGiftTier(s, tier) ELSE {s}

(* dev.onClear *)
DevClearAll(s) ==
  [s EXCEPT !.F = [o \in Obj |->
      IF o \in Range(s.activeFighters) /\ s.F[o].team = "B"
      THEN Die(s.F[o]) ELSE s.F[o]]]

IndexOf(q, x) ==
  IF x \in Range(q) THEN CHOOSE i \in 1 .. Len(q) :
                           q[i] = x /\ \A j \in 1 .. i - 1 : q[j] # x
  ELSE 0

RemoveAt(q, i) == SubSeq(q, 1, i - 1) \o SubSeq(q, i + 1, Len(q))

(* DespawnFighter without the splice: the fighter is released to the pool  *)
(* and stays in the roster                                                 *)
DespawnFighter_keepsInRoster(s, id, target) ==
  IF s.fighterMap[id] = 0 THEN s
  ELSE ReleaseFighter([s EXCEPT !.fighterMap[id] = 0], s.fighterMap[id])

(* SceneBattle.despawnFighter; target is the fighter the callback was      *)
(* scheduled for, kept for the history only                                *)
DespawnFighter(s, id, target) ==
  LET o == s.fighterMap[id]
  IN IF o = 0
     THEN [s EXCEPT !.hist.despawn = [target |-> target, removed |-> 0, wasDead |-> TRUE]]
     ELSE LET idx == IndexOf(s.activeFighters, o)
              s1 == IF idx >= 1
                    THEN [s EXCEPT !.activeFighters = RemoveAt(@, idx)] ELSE s
              s2 == [s1 EXCEPT !.fighterMap[id] = 0,
                               !.hist.despawn = [target |-> target, removed |-> o,
                                                 wasDead |-> s.F[o].dead]]
          IN ReleaseFighter(s2, o)

----------------------------------------------------------------------------
(* Inputs *)

StateLists == {<<>>} \cup {<<i>> : i \in UserIds}
HeartCounts == {45}
GiftTiers == {0, 3}
DevKinds == {"skeleton_archer", "soldier", "golem"}
DevTiers == {1}
DeltasMain == {FIXED_DT}

----------------------------------------------------------------------------
(* Actions *)

(* An external event or dev action can be handled: nothing is running and *)
(* the model's budget of events is not used up                             *)
Ready == pc = "idle" /\ nEvents < MaxEvents

Handled(u) == [u EXCEPT !.nEvents = @ + 1]

HandleState ==
  /\ Ready
  /\ \E ph \in EventPhases, ids \in StateLists :
       \E u \in OnState(Scene, ph, ids) : Becomes(Handled(u))

HandlePhase ==
  /\ Ready
  /\ \E ph \in EventPhases : \E u \in OnPhase(Scene, ph) : Becomes(Handled(u))

HandleJoined ==
  /\ Ready
  /\ \E id \in UserIds : \E u \in OnJoined(Scene, id) : Becomes(Handled(u))

HandleHearts ==
  /\ Ready
  /\ \E c \in HeartCounts : Becomes(Handled(ApplyHearts(Scene, c)))

HandleGift ==
  /\ Ready
  /\ \E t \in GiftTiers : \E u \in TriggerGift(Scene, t) :
       Becomes(Handled([u EXCEPT !.hist.gift =
                          [tier |-> t,
                           spawned |-> Len(u.activeFighters) - Len(activeFighters)]]))

DevSpawn ==
  /\ Ready
  /\ \E team \in {"A", "B"}, k \in DevKinds :
       \E u \in SpawnKind(Scene, team, k, Opts(NoId, NoName, 0, 0, 0, 0, 0)) :
         Becomes(Handled(u))

DevGiftTier ==
  /\ Ready
  /\ \E t \in DevTiers : \E u \in SimulateGiftTier(Scene, t) : Becomes(Handled(u))

DevClear == Ready /\ Becomes(Handled(DevClearAll(Scene)))

(* A pending despawn callback of processDeaths 713-715 fires *)
DespawnCallback ==
  /\ pc = "idle"
  /\ \E i \in 1 .. Len(timers) :
       Becomes(DespawnFighter([Scene EXCEPT !.timers = RemoveAt(@, i)],
                              timers[i].id, timers[i].obj))

(* ClampAccumulator without the reset: the backlog is kept *)
ClampAccumulator_keepsBacklog(acc) == acc

(* update 382-384 *)
ClampAccumulator(acc) == IF acc > FIXED_DT * MAX_STEPS THEN FIXED_DT ELSE acc

(* update 375: the loop test *)
LoopTest(acc, n) == acc >= FIXED_DT /\ n < MAX_STEPS

(* update(): entry, up to the first loop test *)
UpdateBegin(delta) ==
  /\ pc = "idle"
  /\ phase = "BATTLE"
  /\ LET acc == accumulator + delta
     IN IF LoopTest(acc, 0)
        THEN Becomes([Scene EXCEPT !.accumulator = acc, !.steps = 0, !.pc = "loop"])
        ELSE Becomes([Scene EXCEPT !.accumulator = ClampAccumulator(acc), !.steps = 0,
                                   !.hist.preClamp = acc])

(* update(): one iteration of the loop, and the exit when the test fails *)
UpdateStep ==
  /\ pc = "loop"
  /\ \E u \in FixedUpdate(Scene) :
       LET acc == u.accumulator - FIXED_DT
           n == u.steps + 1
       IN IF LoopTest(acc, n)
          THEN Becomes([u EXCEPT !.accumulator = acc, !.steps = n])
          ELSE Becomes([u EXCEPT !.accumulator = ClampAccumulator(acc),
                                 !.steps = n, !.pc = "idle", !.hist.preClamp = acc])

Update == hist.ticks < MaxTicks /\ \E d \in DeltasMain : UpdateBegin(d)

(* The SpatialEntity objects and the cell coordinates *)
EntObj == 1 .. MaxEntities
Coords == -MaxCoord .. MaxCoord - 1
Rows == -1 .. 0

(* constructor 100-102 and the field initialisers 93-94; the scratch arrays *)
(* tempResults and tempCells are emptied at each query and left out         *)
NewSpatialHash(cellSize) ==
  [cellSize |-> cellSize, grid |-> [c \in {} |-> <<>>],
   entityToCell |-> [i \in {} |-> <<>>]]

(* The scene as its field initialisers and create() leave it, the socket   *)
(* connected (the offline bootstrap of create() does not run)              *)
Constructed ==
  [phase |-> "LOBBY", accumulator |-> 0, steps |-> 0, pc |-> "idle",
   F |-> [o \in Obj |-> NewFighter],
   entities |-> [e \in EntObj |-> [id |-> e, x |-> 0, y |-> 0]],
   spatialHash |-> NewSpatialHash(64),
   activeFighters |-> <<>>,
   fighterMap |-> [i \in AllIds |-> 0],
   fighterPool |-> [i \in 1 .. PoolInitF |-> i],
   fCreated |-> PoolInitF,
   P |-> [o \in PObj |-> NewProjectile],
   activeProjectiles |-> <<>>,
   projectilePool |-> [i \in 1 .. PoolInitP |-> i],
   pCreated |-> PoolInitP,
   tempAllies |-> <<>>, tempEnemies |-> <<>>,
   waveNumber |-> 0, waveActive |-> FALSE, waveSpawnsRemaining |-> 0,
   waveSpawnCdMs |-> 0, betweenWaveCdMs |-> 0,
   seenDead |-> {}, killsToday |-> [n \in NamesDom |-> 0],
   timers |-> <<>>, genCount |-> 0, nEvents |-> 0,
   hist |-> [credits |-> [o \in Obj |-> 0], processed |-> [o \in Obj |-> 0],
             landed |-> [o \in Obj |-> 0], passes |-> [o \in Obj |-> 0],
             sinceClear |-> 0, ticks |-> 0, preClamp |-> 0,
             moved |-> {}, staleRead |-> FALSE,
             inserted |-> {}, stale |-> {}, query |-> [x |-> 0, y |-> 0, radius |-> -1, result |-> <<>>],
             heal |-> [healer |-> 0, inRange |-> {},
                       before |-> [o \in Obj |-> NewFighter],
                       after |-> [o \in Obj |-> NewFighter]],
             rejected |-> [unknown |-> 0, enemyOnA |-> 0, playerOnB |-> 0],
             ops |-> 0, op |-> [name |-> "none", arg |-> 0, before |-> NewFighter],
             despawn |-> [target |-> 0, removed |-> 0, wasDead |-> TRUE],
             hits |-> [o \in PObj |-> 0], lateHit |-> FALSE, placed |-> FALSE,
             gift |-> [tier |-> -1, spawned |-> 0], cleared |-> 0,
             shot |-> [foul |-> FALSE, single |-> FALSE, area |-> FALSE],
             cap |-> [objects |-> MaxFighters, ids |-> MaxGen, waves |-> MaxWave],
             wave |-> [number |-> 0, players |-> 0, count |-> 0, quota |-> 0,
                       bosses |-> 0, boss |-> "none", spawned |-> 0, bursts |-> 0,
                       largest |-> 0, since |-> 0, pool |-> {}, alive |-> 0,
                       gap |-> BURST_INTERVAL_MS + FIXED_DT,
                       before |-> 0, countBefore |-> 0, playersBefore |-> 0]]]

(* The variables hold the scene s *)
Starts(s) ==
  /\ phase = s.phase /\ accumulator = s.accumulator /\ steps = s.steps
  /\ pc = s.pc /\ F = s.F /\ activeFighters = s.activeFighters
  /\ entities = s.entities /\ spatialHash = s.spatialHash
  /\ fighterMap = s.fighterMap /\ fighterPool = s.fighterPool
  /\ fCreated = s.fCreated /\ P = s.P
  /\ activeProjectiles = s.activeProjectiles
  /\ projectilePool = s.projectilePool /\ pCreated = s.pCreated
  /\ tempAllies = s.tempAllies /\ tempEnemies = s.tempEnemies
  /\ waveNumber = s.waveNumber /\ waveActive = s.waveActive
  /\ waveSpawnsRemaining = s.waveSpawnsRemaining
  /\ waveSpawnCdMs = s.waveSpawnCdMs /\ betweenWaveCdMs = s.betweenWaveCdMs
  /\ seenDead = s.seenDead /\ killsToday = s.killsToday
  /\ timers = s.timers /\ genCount = s.genCount /\ nEvents = s.nEvents
  /\ hist = s.hist

Init == Starts(Constructed)

Next ==
  \/ HandleState
  \/ HandlePhase
  \/ HandleJoined
  \/ HandleHearts
  \/ HandleGift
  \/ DevSpawn
  \/ DevGiftTier
  \/ DevClear
  \/ DespawnCallback
  \/ Update
  \/ UpdateStep

Spec == Init /\ [][Next]_vars

----------------------------------------------------------------------------
(* The frame clock alone: the phase messages and update() calls whose delta *)
(* is none, one step, a backlog the loop cap leaves in the accumulator, and *)
(* a backlog past the accumulator's bound. Only wave enemies are on stage.  *)

DeltasClock == {0, FIXED_DT, 7 * FIXED_DT, 11 * FIXED_DT}

UpdateClock == hist.ticks < MaxClockTicks /\ \E d \in DeltasClock : UpdateBegin(d)

NextClock ==
  \/ HandlePhase
  \/ UpdateClock
  \/ UpdateStep

SpecClock == Init /\ [][NextClock]_vars

----------------------------------------------------------------------------
(* The duel: a viewer joins, which starts the battle and the first wave,   *)
(* and the ticks run.  The viewer's soldier (attack 12) meets the wave's   *)
(* slimes (60 hp, defense 0).                                              *)

UpdateDuel == hist.ticks < MaxDuelTicks /\ UpdateBegin(FIXED_DT)

NextDuel ==
  \/ HandleJoined
  \/ UpdateDuel
  \/ UpdateStep

SpecDuel == Init /\ [][NextDuel]_vars

----------------------------------------------------------------------------
(* The healer at work: a soldier of viewer 1, a knight templar and a priest *)
(* from tier 3 gifts, and a skeleton archer spawned from the dev tools      *)
(* after wave 2 was cleared.  The archer has hit the soldier (11 hp a hit)  *)
(* and the templar (7 hp a hit) some times                                  *)

Only(ss) == CHOOSE u \in ss : TRUE

HealStaged ==
  Only(SpawnKind(
    Only(SpawnKind(
      Only(SpawnKind(
        Only(SpawnKind(Constructed, "A", "soldier",
                       Opts(<<"u", 1>>, UserName(<<"u", 1>>), 0, 0, 0, 0, 0))),
        "A", "knight_templar", Opts(NoId, DisplayName("knight_templar"), 0, 0, 0, 0, 0))),
      "A", "priest", Opts(NoId, DisplayName("priest"), 0, 0, 0, 0, 0))),
    "B", "skeleton_archer", Opts(NoId, NoName, 0, 0, 0, 0, 0)))

HealScenes ==
  { [HealStaged EXCEPT
       !.phase = "BATTLE",
       !.waveNumber = 2, !.waveActive = FALSE,
       !.waveSpawnCdMs = BURST_INTERVAL_MS - 30 * FIXED_DT,
       !.betweenWaveCdMs = BETWEEN_WAVE_MS - 48 * FIXED_DT,
       !.hist.sinceClear = 48 * FIXED_DT,
       !.F[HealStaged.activeFighters[1]].hp = @ - hs * (14 - 3),
       !.F[HealStaged.activeFighters[2]].hp = @ - ht * (14 - 7)]
    : hs \in 0 .. MaxHits, ht \in 0 .. MaxHits }

InitHeal == \E u \in HealScenes : Starts(u)

NextHeal ==
  \/ Update
  \/ UpdateStep

SpecHeal == InitHeal /\ [][NextHeal]_vars

----------------------------------------------------------------------------
(* The rejoin: a battle some seconds old in which a viewer is on stage      *)
(* twice.  The lobby's state message listed viewer 1, the socket           *)
(* reconnected and the next state message listed viewer 1 again: two       *)
(* soldiers carry the id and fighterMap holds the second.  Wave 1 was      *)
(* cleared in its first tick and wave 2 started 2200 ms later.  A skeleton *)
(* archer spawned from the dev tools shot the first soldier nine times     *)
(* (14 damage against defense 3: from 110 to 11 hp); the dev tools then    *)
(* cleared the enemies, which ended wave 2 in the next tick, and 800 ms    *)
(* (48 ticks) later the archer's despawn callback has run.  A second       *)
(* archer has just been spawned from the dev tools.  Update needs some 700 *)
(* ticks to get here from Constructed, so the run starts here.  The wave's *)
(* slimes, despawned before the archer, are left out: no fighter carries   *)
(* their ids again and the pool does not run out of objects.               *)

(* The two soldiers of viewer 1 and the first archer, in battle *)
RejoinStaged ==
  Only(SpawnKind(
    Only(SpawnKind(
      Only(SpawnKind(Constructed, "A", "soldier",
                     Opts(<<"u", 1>>, UserName(<<"u", 1>>), 0, 0, 0, 0, 0))),
      "A", "soldier", Opts(<<"u", 1>>, UserName(<<"u", 1>>), 0, 0, 0, 0, 0))),
    "B", "skeleton_archer", Opts(NoId, NoName, 0, 0, 0, 0, 0)))

(* Nine arrows of the archer (the third in the roster) have hit the first  *)
(* soldier; wave 2 has been cleared 48 ticks ago, 30 ticks or more after   *)
(* its last burst                                                          *)
RejoinWounded ==
  [RejoinStaged EXCEPT
     !.phase = "BATTLE",
     !.waveNumber = 2, !.waveActive = FALSE,
     !.waveSpawnCdMs = BURST_INTERVAL_MS - 30 * FIXED_DT,
     !.betweenWaveCdMs = BETWEEN_WAVE_MS - 48 * FIXED_DT,
     !.hist.sinceClear = 48 * FIXED_DT,
     !.F[RejoinStaged.activeFighters[1]].hp = @ - 9 * (14 - 3),
     !.F[RejoinStaged.activeFighters[1]].lastHitBy =
        RejoinStaged.F[RejoinStaged.activeFighters[3]].id]

(* dev.onClear, the death pass of the next tick, the despawn callback *)
RejoinCleared ==
  DespawnFighter([ProcessDeaths(DevClearAll(RejoinWounded)) EXCEPT !.timers = <<>>],
                 ProcessDeaths(DevClearAll(RejoinWounded)).timers[1].id,
                 ProcessDeaths(DevClearAll(RejoinWounded)).timers[1].obj)

RejoinScene ==
  Only(SpawnKind(Snapshot(RejoinCleared), "B", "skeleton_archer",
                 Opts(NoId, NoName, 0, 0, 0, 0, 0)))

InitRejoin == Starts(RejoinScene)

NextRejoin ==
  \/ HandleJoined
  \/ DespawnCallback
  \/ Update
  \/ UpdateStep

SpecRejoin == InitRejoin /\ [][NextRejoin]_vars

----------------------------------------------------------------------------
(* One fighter alone: the methods of Fighter called on a fighter in any     *)
(* condition a fighter on stage can be in.  It was spawned as the first     *)
(* fighter of the scene; it is alive with 1 .. maxHP hp, or it died of      *)
(* damage (0 hp), or, an enemy, it was killed by dev.onClear with the hp it *)
(* had.  The hp values tried are the ones within MaxAmount of 0 and of      *)
(* maxHP.  The kinds have the defenses 0, 1, 3 and 7.                       *)

BenchScenes ==
  UNION { UNION { { [u EXCEPT !.F[1].hp = h],
                    [u EXCEPT !.F[1] = Die([@ EXCEPT !.hp = IF u.F[1].team = "B" THEN h ELSE 0])] }
                  : h \in {x \in 1 .. u.F[1].maxHP :
                             x <= MaxAmount + 1 \/ x >= u.F[1].maxHP - MaxAmount - 1} }
          : u \in UNION { SpawnKind(Constructed, IF UNIT_DEFS[k].side = "enemy" THEN "B" ELSE "A",
                                    k, Opts(NoId, NoName, 0, 0, 0, 0, 0))
                          : k \in {"slime", "skeleton", "soldier", "knight_templar"} } }

InitBench == \E u \in BenchScenes : Starts(u)

(* The method name has been called with arg on the first fighter, now f *)
Applied(name, arg, f) ==
  [Scene EXCEPT !.F[1] = f,
                !.hist.ops = @ + 1,
                !.hist.op = [name |-> name, arg |-> arg, before |-> F[1]]]

BenchTakeDamage ==
  /\ hist.ops < MaxOps
  /\ \E d \in 0 .. MaxAmount, roll \in BOOLEAN :
       Becomes(Applied("takeDamage", d, TakeDamage(F[1], d, roll)))

BenchHeal ==
  /\ hist.ops < MaxOps
  /\ \E a \in -1 .. MaxAmount : Becomes(Applied("heal", a, Heal(F[1], a)))

BenchEnter ==
  /\ hist.ops < MaxOps
  /\ \E st \in {"idle", "chase", "windup", "block"} :
       Becomes(Applied("enter", st, Enter(F[1], st)))

BenchUpdateFixed ==
  /\ hist.ops < MaxOps
  /\ Becomes(Applied("updateFixed", FIXED_DT, FighterUpdateFixed(F[1])))

NextBench ==
  \/ BenchTakeDamage
  \/ BenchHeal
  \/ BenchEnter
  \/ BenchUpdateFixed

SpecBench == InitBench /\ [][NextBench]_vars

----------------------------------------------------------------------------------------------------------------------------------------------------
(* SpatialHash (NameplateFactory.ts 91-187).  grid and entityToCell are    *)
(* functions whose domain is the set of keys the Map holds; an entity is   *)
(* the object e, its fields are entities[e]; a cell key is the pair        *)
(* <<cx, cy>> for the string "cx,cy".                                      *)

(* getCellKey 104-108; \div rounds down as Math.floor does *)
GetCellKey(h, x, y) == <<x \div h.cellSize, y \div h.cellSize>>

(* grid.get: the list of a cell, empty when the Map has no such key *)
CellList(grid, c) == IF c \in DOMAIN grid THEN grid[c] ELSE <<>>

(* The grid with the list stored under c; an empty list deletes the key    *)
(* (insert 120, 126-130)                                                   *)
SetList(grid, c, list) ==
  [d \in (IF list = <<>> THEN DOMAIN grid \ {c} ELSE DOMAIN grid \cup {c})
     |-> IF d = c THEN list ELSE grid[d]]

(* insert 118-119: the list without its first entity that carries the id *)
SpliceId(list, ents, id) ==
  IF \E i \in 1 .. Len(list) : ents[list[i]].id = id
  THEN SubSeq(list, 1, (CHOOSE i \in 1 .. Len(list) :
                          /\ ents[list[i]].id = id
                          /\ \A j \in 1 .. i - 1 : ents[list[j]].id # id) - 1)
       \o SubSeq(list, (CHOOSE i \in 1 .. Len(list) :
                          /\ ents[list[i]].id = id
                          /\ \A j \in 1 .. i - 1 : ents[list[j]].id # id) + 1, Len(list))
  ELSE list

(* insert 114-122: the grid after the removal from the old cell *)
LeaveOldCell(h, ents, id) ==
  IF id \in DOMAIN h.entityToCell /\ h.entityToCell[id] \in DOMAIN h.grid
  THEN SetList(h.grid, h.entityToCell[id],
               SpliceId(h.grid[h.entityToCell[id]], ents, id))
  ELSE h.grid

(* SpatialHash.insert *)
HashInsert(h, ents, e) ==
  IF /\ ents[e].id \in DOMAIN h.entityToCell
     /\ h.entityToCell[ents[e].id] = GetCellKey(h, ents[e].x, ents[e].y)
  THEN h
  ELSE [h EXCEPT
          !.grid = SetList(LeaveOldCell(h, ents, ents[e].id),
                           GetCellKey(h, ents[e].x, ents[e].y),
                           Append(CellList(LeaveOldCell(h, ents, ents[e].id),
                                           GetCellKey(h, ents[e].x, ents[e].y)), e)),
          !.entityToCell = [i \in DOMAIN h.entityToCell \cup {ents[e].id} |->
                              IF i = ents[e].id
                              THEN GetCellKey(h, ents[e].x, ents[e].y)
                              ELSE h.entityToCell[i]]]

(* SpatialHash.clear *)
HashClear(h) ==
  [h EXCEPT !.grid = [c \in {} |-> <<>>], !.entityToCell = [i \in {} |-> <<>>]]

(* queryRadius 154: Math.ceil(radius / cellSize), radius >= 0 *)
CellRadius(h, radius) == (radius + h.cellSize - 1) \div h.cellSize

(* queryRadius 170-177: the entities of a list within the radius, at the   *)
(* positions they have now                                                 *)
WithinRadius(list, ents, x, y, radius) ==
  LET Near(e) == (ents[e].x - x) * (ents[e].x - x) + (ents[e].y - y) * (ents[e].y - y)
                   <= radius * radius
  IN SelectSeq(list, Near)

(* queryRadius 159-163: the k-th cell collected, k from 0, of the square   *)
(* of side n = 2 * cellRadius + 1 around the centre cell                   *)
TempCell(h, x, y, n, k) ==
  <<x \div h.cellSize + (k \div n) - (n - 1) \div 2,
    y \div h.cellSize + (k % n) - (n - 1) \div 2>>

RECURSIVE ScanCells(_, _, _, _, _, _, _)
(* queryRadius 166-178 from the k-th cell on *)
ScanCells(h, ents, x, y, radius, n, k) ==
  IF k >= n * n THEN <<>>
  ELSE WithinRadius(CellList(h.grid, TempCell(h, x, y, n, k)), ents, x, y, radius)
       \o ScanCells(h, ents, x, y, radius, n, k + 1)

(* queryRadius scanning the centre cell alone *)
QueryRadius_centreCellOnly(h, ents, x, y, radius) ==
  ScanCells(h, ents, x, y, radius, 1, 0)

(* SpatialHash.queryRadius: the array returned *)
QueryRadius(h, ents, x, y, radius) ==
  ScanCells(h, ents, x, y, radius, 2 * CellRadius(h, radius) + 1, 0)

(* A hash of some cell size, empty, and entities anywhere (x in Coords, y  *)
(* in Rows) with any ids; ids matter by equality alone, so that the first   *)
(* entity has the id 1                                                      *)
HashScenes ==
  { [Constructed EXCEPT !.spatialHash = NewSpatialHash(cs), !.entities = ents]
    : cs \in 1 .. MaxCellSize,
      ents \in {f \in [EntObj -> [id : EntObj, x : Coords, y : Rows]] : f[1].id = 1} }

InitHash == \E u \in HashScenes : Starts(u)

(* fixedUpdate 415: the hash is cleared *)
ClearHash ==
  \E h \in {HashClear(spatialHash)} :
  Becomes([Scene EXCEPT !.spatialHash = h,
                        !.hist.inserted = {}, !.hist.stale = {},
                        !.hist.query = [x |-> 0, y |-> 0, radius |-> -1, result |-> <<>>]])

(* fixedUpdate 416-418: an entity is inserted *)
InsertEntity ==
  \E e \in EntObj :
    hist.query.radius < 0 /\
    Becomes([Scene EXCEPT !.spatialHash = HashInsert(@, entities, e),
                          !.hist.inserted = @ \cup {e}, !.hist.stale = @ \ {e},
                          !.hist.query = [x |-> 0, y |-> 0, radius |-> -1, result |-> <<>>]])

(* fixedUpdate 420-426: updateFixed and applySeparation move an entity and *)
(* the hash is not told.  The model follows one move between two           *)
(* insertions, along x (the teams face each other along x) and by two      *)
(* cells at most                                                           *)
MoveEntity ==
  \E e \in EntObj \ hist.stale, x \in Coords :
    /\ hist.query.radius < 0
    /\ x # entities[e].x
    /\ x - entities[e].x \in -2 * spatialHash.cellSize .. 2 * spatialHash.cellSize
    /\ Becomes([Scene EXCEPT !.entities[e].x = x,
                             !.hist.stale = IF e \in hist.inserted THEN @ \cup {e} ELSE @,
                             !.hist.query = [x |-> 0, y |-> 0, radius |-> -1, result |-> <<>>]])

(* checkProjectileCollisions 661-665: the query of an impact, the last     *)
(* use of the hash before the next tick clears it (the model follows one   *)
(* query a tick).  History: the query and the array it returned            *)
AoeQuery ==
  \E x \in Coords, y \in Rows, radius \in 0 .. MaxRadius :
    /\ hist.query.radius < 0
    /\ Becomes([Scene EXCEPT
                  !.hist.query = [x |-> x, y |-> y, radius |-> radius,
                                  result |-> QueryRadius(spatialHash, entities, x, y, radius)]])

NextHash ==
  \/ ClearHash
  \/ InsertEntity
  \/ MoveEntity
  \/ AoeQuery

SpecHash == InitHash /\ [][NextHash]_vars

----
(* An arrow in flight: viewer 1's soldier and a skeleton archer spawned     *)
(* from the dev tools, after wave 2 was cleared.  The archer has shot at    *)
(* the soldier k ticks ago and the arrow has missed so far; once its attack *)
(* was over the archer has been chasing the soldier, out of range.          *)

FlightStaged ==
  Snapshot(
    Only(SpawnKind(
      Only(SpawnKind(Constructed, "A", "soldier",
                     Opts(<<"u", 1>>, UserName(<<"u", 1>>), 0, 0, 0, 0, 0))),
      "B", "skeleton_archer", Opts(NoId, NoName, 0, 0, 0, 0, 0))))

FlightShot ==
  Only(TryAttack(LockTarget(FlightStaged, FlightStaged.activeFighters[2],
                            FlightStaged.activeFighters[1]),
                 FlightStaged.activeFighters[2], FlightStaged.activeFighters[1]))

(* A timer that DecIfPos has brought to rest *)
Rest(t) == IF t > 0 THEN t - ((t + FIXED_DT - 1) \div FIXED_DT) * FIXED_DT ELSE t

(* The fighter f after the many calls of Fighter.updateFixed that bring all *)
(* its timers to rest, chasing since its last AI decision                   *)
Chasing(f) ==
  Enter([f EXCEPT !.attackCdMs = Rest(@), !.windupMs = Rest(@),
                  !.recoverMs = Rest(IF f.state = "windup" THEN Defn(f).recoverMs ELSE @),
                  !.staggerMs = Rest(@), !.blockCdMs = Rest(@),
                  !.vel = TRUE, !.aiCdMs = Only(AiCdDraws)], "chase")

(* Ticks flown by the arrow: just shot, or near the end of its life *)
FlightAges ==
  {k \in 0 .. PROJ_MAX_LIFE \div FIXED_DT :
     k = 0 \/ k >= PROJ_MAX_LIFE \div FIXED_DT - MaxTicks}

FlightScenes ==
  { [FlightShot EXCEPT
       !.phase = "BATTLE",
       !.waveNumber = 2, !.waveActive = FALSE,
       !.waveSpawnCdMs = BURST_INTERVAL_MS - 30 * FIXED_DT,
       !.betweenWaveCdMs = BETWEEN_WAVE_MS,
       !.F[FlightShot.activeFighters[1]] = Chasing(@),
       !.F[FlightShot.activeFighters[2]] = IF k = 0 THEN @ ELSE Chasing(@),
       !.P[Last(FlightShot.activeProjectiles)].lifeMs = k * FIXED_DT]
    : k \in FlightAges }

InitFlight == \E u \in FlightScenes : Starts(u)

NextFlight ==
  \/ Update
  \/ UpdateStep

SpecFlight == InitFlight /\ [][NextFlight]_vars

----
(* The aim: two slimes spawned from the dev tools, which may have cleared   *)
(* the enemies after the first or after the second, then viewer 1's         *)
(* soldier, after wave 2 was cleared.  The slimes stand at their entities,  *)
(* the soldier at the origin; nobody has moved yet.                         *)

AimCleared(s, clear) == IF clear THEN DevClearAll(s) ELSE s

AimStaged(clear1, clear2) ==
  Only(SpawnKind(
    AimCleared(
      Only(SpawnKind(
        AimCleared(
          Only(SpawnKind(Constructed, "B", "slime", Opts(NoId, NoName, 0, 0, 0, 0, 0))),
          clear1),
        "B", "slime", Opts(NoId, NoName, 0, 0, 0, 0, 0))),
      clear2),
    "A", "soldier", Opts(<<"u", 1>>, UserName(<<"u", 1>>), 0, 0, 0, 0, 0)))

AimScenes ==
  { [AimStaged(c[1], c[2]) EXCEPT
       !.phase = "BATTLE",
       !.waveNumber = 2, !.waveActive = FALSE,
       !.waveSpawnCdMs = BURST_INTERVAL_MS - 30 * FIXED_DT,
       !.betweenWaveCdMs = BETWEEN_WAVE_MS,
       !.entities = ents, !.hist.placed = TRUE]
    : c \in BOOLEAN \X BOOLEAN,
      ents \in {f \in [EntObj -> [id : EntObj, x : Coords, y : Rows]] :
                 \A e \in EntObj : f[e].id = e} }

InitAim == \E u \in AimScenes : Starts(u)

NextAim ==
  \/ Update
  \/ UpdateStep

SpecAim == InitAim /\ [][NextAim]_vars

----
(* The waves alone: the scene after w waves have been cleared and the last  *)
(* fighters despawned, no player in the lobby and one more message to      *)
(* come.  A phase message starts the wave; the enemies find no opponent.   *)

WaveScenes ==
  {[Constructed EXCEPT !.waveNumber = w, !.nEvents = MaxEvents - 1,
                       !.hist.cap = [objects |-> MaxObjects, ids |-> MaxObjects,
                                     waves |-> MaxWaveNo]]
   : w \in 0 .. MaxWaveNo - 1}

InitWave == \E u \in WaveScenes : Starts(u)

UpdateWave == hist.ticks < MaxWaveTicks /\ \E d \in DeltasMain : UpdateBegin(d)

NextWave ==
  \/ HandlePhase
  \/ UpdateWave
  \/ UpdateStep

SpecWave == InitWave /\ [][NextWave]_vars

----
(* The kind pools: the same scenes up to wave MaxPoolWave, run for the      *)
(* first burst of the wave                                                  *)

PoolScenes ==
  {[Constructed EXCEPT !.waveNumber = w, !.nEvents = MaxEvents - 1,
                       !.hist.cap = [objects |-> MaxObjects, ids |-> MaxObjects,
                                     waves |-> MaxPoolWave]]
   : w \in 0 .. MaxPoolWave - 1}

InitPool == \E u \in PoolScenes : Starts(u)

UpdatePool == hist.ticks < MaxPoolTicks /\ \E d \in DeltasMain : UpdateBegin(d)

NextPool ==
  \/ HandlePhase
  \/ UpdatePool
  \/ UpdateStep

SpecPool == InitPool /\ [][NextPool]_vars

----
(* Properties *)

\* C1: a call of update() runs at most MAX_STEPS fixed ticks; once it has
\* returned the accumulator is at most MAX_STEPS x FIXED_DT, and it is exactly
\* one FIXED_DT when the loop left more than that bound (hist.preClamp is the
\* accumulator as the loop left it).
C1_StepsAndAccumulatorBounded ==
  /\ steps <= MAX_STEPS
  /\ pc = "idle" => accumulator <= MAX_STEPS * FIXED_DT
  /\ (pc = "idle" /\ hist.preClamp > MAX_STEPS * FIXED_DT) => accumulator = FIXED_DT

\* C1 happens: a call ran MAX_STEPS ticks, left a backlog past the bound and
\* returned with the accumulator reset
C1_Witness ==
  /\ pc = "idle" /\ steps = MAX_STEPS
  /\ hist.preClamp > MAX_STEPS * FIXED_DT
  /\ accumulator = FIXED_DT

\* C2: in the duel of a viewer's soldier (attack 12) with a slime (60 hp,
\* defense 0) every attack the soldier completes lands as an unblocked hit of
\* 12: after k completed attacks on its target (hist.landed) the slime has lost
\* at least 12 k hp, so that the fifth kills it.
C2_AttacksLand ==
  \A o \in Range(activeFighters) :
    ( /\ F[o].kind = "soldier" /\ F[o].team = "A"
      /\ F[o].target # 0 /\ hist.landed[o] >= 1
      /\ F[F[o].target].kind = "slime" )
    => F[F[o].target].hp
         <= Defn(F[F[o].target]).maxHP
              - hist.landed[o] * (F[o].atk - Defn(F[F[o].target]).def)

\* C3: creditKillIfAny is called at most once for a fighter's death, however
\* many ticks processDeaths meets the fighter dead in the roster; so the death
\* adds at most one kill to the leaderboard.
C3_CreditedAtMostOnce ==
  \A o \in Obj : hist.credits[o] <= 1

\* C3 happens: a fighter tagged by a viewer's soldier is dead in the roster,
\* its kill was credited, and processDeaths has met it dead a second time
C3_Witness ==
  \E o \in Range(activeFighters) :
    /\ F[o].dead /\ hist.credits[o] = 1 /\ hist.passes[o] >= 2
    /\ \E n \in NamesDom : killsToday[n] = 1

\* C4: a fighter that has died is processed by death handling exactly once
\* and then leaves: while it is dead in the roster it is either still to be
\* processed by the coming tick or its despawn callback is pending; it is
\* never left dead in the roster with nothing to remove it.
C4_DeadFighterLeaves ==
  \A o \in Range(activeFighters) :
    F[o].dead =>
      /\ hist.processed[o] <= 1
      /\ \/ hist.processed[o] = 0 /\ F[o].id \notin seenDead
         \/ \E i \in 1 .. Len(timers) : timers[i].obj = o

\* C5: the wave is marked cleared (waveActive goes from true to false) only
\* into a state where no enemy-side fighter of the roster is alive and
\* waveSpawnsRemaining is 0; enemies spawned in the same tick count as alive.
C5_ClearedOnlyWhenNoEnemy ==
  [][(waveActive /\ ~waveActive')
       => /\ waveSpawnsRemaining' = 0
          /\ \A o \in Range(activeFighters') : F'[o].team = "B" => F'[o].dead]_vars

\* C6: once a wave has been cleared, the next wave starts only when at least
\* 2200 ms of fixed-tick time have passed since the clearing (hist.sinceClear)
\* and a player-side fighter of the roster is alive, whatever events arrive.
C6_IntermissionRespected ==
  [][(waveNumber >= 1 /\ ~waveActive /\ waveActive')
       => /\ hist.sinceClear >= BETWEEN_WAVE_MS
          /\ \E o \in Range(activeFighters) : F[o].team = "A" /\ ~F[o].dead]_vars

\* C7: a step that writes a fighter's __lastHitBy also reduces that fighter's
\* hp; no operation sets the tag without damaging the fighter.
C7_TagOnlyWithDamage ==
  [][\A o \in Range(activeFighters) :
       F'[o].lastHitBy # F[o].lastHitBy => F'[o].hp < F[o].hp]_vars

\* C8: a despawn callback that removes a fighter removes the dead fighter it
\* was scheduled for (hist.despawn records the last callback): never a
\* living fighter, never another fighter that holds the same id.
C8_CallbackActsOnItsFighter ==
  hist.despawn.removed # 0 =>
    hist.despawn.removed = hist.despawn.target /\ hist.despawn.wasDead

\* C9: no Fighter or Projectile object is at once in its active roster and in
\* its pool's free list, and none occurs twice in a roster or in a free list.
C9_RosterAndPoolDisjoint ==
  /\ Range(activeFighters) \cap Range(fighterPool) = {}
  /\ Range(activeProjectiles) \cap Range(projectilePool) = {}
  /\ Cardinality(Range(activeFighters)) = Len(activeFighters)
  /\ Cardinality(Range(fighterPool)) = Len(fighterPool)
  /\ Cardinality(Range(activeProjectiles)) = Len(activeProjectiles)
  /\ Cardinality(Range(projectilePool)) = Len(projectilePool)

\* C9 happens: a fighter that was on stage has been despawned into the free
\* list, a projectile that flew has been released into its free list, and
\* fighters are still on stage
C9_Witness ==
  /\ \E o \in Range(fighterPool) : F[o].id # NoId
  /\ \E po \in Range(projectilePool) : P[po].ownerId # NoId
  /\ activeFighters # <<>>

\* C10: fighter and projectile state (hp, lifecycle state, roster membership)
\* changes only inside the fixed tick: a step outside update()'s loop (an
\* external event, a dev-tool action, a despawn callback) leaves it unchanged.
C10_OnlyTheTickChangesState ==
  [][(pc = "idle" /\ pc' = "idle")
       => /\ activeFighters' = activeFighters
          /\ activeProjectiles' = activeProjectiles
          /\ P' = P
          /\ \A o \in Obj : /\ F'[o].hp = F[o].hp
                            /\ F'[o].state = F[o].state
                            /\ F'[o].dead = F[o].dead]_vars

\* C11: within one fixed tick no AI decision reads the position of an opponent
\* that has already been moved in that tick: every decision sees the positions
\* of the start of the tick (hist.staleRead tells that one did not).
C11_DecisionsSeeTickStartPositions ==
  ~hist.staleRead

\* C12: takeDamage(D) on a living fighter that cannot block lowers its hp by
\* exactly min(hp, max(1, D - F)), F its defense; that is by at least 1.
C12_DamageIsAtLeastOne ==
  (hist.op.name = "takeDamage" /\ ~hist.op.before.dead /\ ~hist.op.before.canBlock)
    => /\ F[1].hp = hist.op.before.hp
                       - Min(hist.op.before.hp,
                             Max(1, hist.op.arg - UNIT_DEFS[hist.op.before.kind].def))
       /\ F[1].hp <= hist.op.before.hp - 1

\* C12 happens: a damage below the defense has cost a living fighter 1 hp
C12_Witness ==
  /\ hist.op.name = "takeDamage" /\ ~hist.op.before.dead
  /\ hist.op.arg < UNIT_DEFS[hist.op.before.kind].def
  /\ F[1].hp = hist.op.before.hp - 1

\* C13: heal(amount) never leaves hp above maxHP and never lowers it; on a
\* fighter at maxHP, on a dead fighter and with amount <= 0 it changes nothing;
\* otherwise hp becomes min(maxHP, hp + amount).
C13_HealIsCapped ==
  hist.op.name = "heal"
    => /\ F[1].hp <= F[1].maxHP
       /\ F[1].hp >= hist.op.before.hp
       /\ IF \/ hist.op.before.dead
             \/ hist.op.arg <= 0
             \/ hist.op.before.hp = hist.op.before.maxHP
          THEN F[1] = hist.op.before
          ELSE F[1].hp = Min(hist.op.before.maxHP, hist.op.before.hp + hist.op.arg)

\* C13 happens: a heal larger than the missing hp has filled a wounded fighter
C13_Witness ==
  /\ hist.op.name = "heal" /\ ~hist.op.before.dead
  /\ hist.op.before.hp < hist.op.before.maxHP
  /\ hist.op.before.hp + hist.op.arg > hist.op.before.maxHP
  /\ F[1].hp = F[1].maxHP

\* C14: every fighter of the active roster has 0 <= hp <= maxHP, whatever
\* spawns (wave scaling included), damage, heals and hearts events came before.
C14_HpWithinBounds ==
  \A o \in Range(activeFighters) : 0 <= F[o].hp /\ F[o].hp <= F[o].maxHP

\* C14 happens: a fighter spawned by a wave stands in the roster, wounded by a
\* hit and alive
C14_Witness ==
  \E o \in Range(activeFighters) :
    /\ F[o].team = "B" /\ ~F[o].dead /\ F[o].lastHitBy # NoId
    /\ 0 < F[o].hp /\ F[o].hp < F[o].maxHP

\* C15: every cooldown counter of every fighter (attackCdMs, windupMs,
\* recoverMs, staggerMs, aiCdMs, blockCdMs) is non-negative in every state.
C15_CountersNonNegative ==
  \A o \in Obj :
    /\ F[o].attackCdMs >= 0 /\ F[o].windupMs >= 0 /\ F[o].recoverMs >= 0
    /\ F[o].staggerMs >= 0 /\ F[o].aiCdMs >= 0 /\ F[o].blockCdMs >= 0

\* C16: a fighter whose hp has reached 0 is dead in the same step, and on a
\* dead fighter enter, takeDamage, heal and updateFixed change nothing: death
\* lasts until the fighter is despawned and initialised again.
C16_DeathIsFinal ==
  /\ [](F[1].hp <= 0 => F[1].dead /\ F[1].state = "dead")
  /\ [][F[1].dead => F'[1] = F[1]]_vars

\* C16 happens: a hit has taken the last hp of a living fighter, and the dead
\* fighter was then asked to enter a state
C16_Witness ==
  /\ hist.op.name = "enter" /\ hist.op.before.dead /\ hist.op.before.hp = 0
  /\ hist.op.before.lastHitBy = NoId /\ hist.ops = 2

\* C17: a spawnKind request that is rejected (unknown kind, enemy-only kind
\* for team A, player-only kind for team B; hist.rejected counts them) takes no
\* object from the fighter pool and leaves the fighters, activeFighters and
\* fighterMap as they were.
C17_RejectedSpawnChangesNothing ==
  [][hist'.rejected # hist.rejected
       => /\ F' = F /\ activeFighters' = activeFighters
          /\ fighterMap' = fighterMap
          /\ fighterPool' = fighterPool /\ fCreated' = fCreated]_vars

\* C17 happens: a request was rejected for each of the three reasons, the
\* last one with a fighter on stage
C17_Witness ==
  /\ hist.rejected.unknown >= 1 /\ hist.rejected.enemyOnA >= 1
  /\ hist.rejected.playerOnB >= 1

\* C18: a healer that attempts an attack heals the living wounded ally within
\* its range that has the lowest hp fraction, and no other fighter's hp
\* changes; an ally out of range is never the one picked; when no wounded ally
\* is in range no hp changes and the healer does not enter windup.
C18_HealerPicksLowestInRange ==
  hist.heal.healer # 0 =>
    IF \E a \in hist.heal.inRange : hist.heal.before[a].hp < hist.heal.before[a].maxHP
    THEN \E b \in hist.heal.inRange :
           /\ hist.heal.before[b].hp < hist.heal.before[b].maxHP
           /\ \A a \in hist.heal.inRange :
                ~PctLess(hist.heal.before[a], hist.heal.before[b])
           /\ hist.heal.after[b].hp > hist.heal.before[b].hp
           /\ \A o \in Obj \ {b} : hist.heal.after[o].hp = hist.heal.before[o].hp
           /\ hist.heal.after[hist.heal.healer].state = "windup"
    ELSE /\ \A o \in Obj : hist.heal.after[o].hp = hist.heal.before[o].hp
         /\ hist.heal.after[hist.heal.healer].state # "windup"

\* C18 happens: the healer has healed an ally in range while an ally with a
\* lower hp fraction stood out of range
C18_Witness ==
  /\ hist.heal.healer # 0
  /\ \E b \in hist.heal.inRange : hist.heal.after[b].hp > hist.heal.before[b].hp
  /\ \E a \in Obj \ (hist.heal.inRange \cup {hist.heal.healer}) :
       /\ hist.heal.before[a].team = "A" /\ ~hist.heal.before[a].dead
       /\ \E b \in hist.heal.inRange : PctLess(hist.heal.before[a], hist.heal.before[b])

\* C19: when a magic projectile with an area radius hits, the fighters its
\* query returns (the ones that take the damage) are exactly the fighters of
\* the tick's snapshot that stand within the radius of the impact point at
\* that moment, each once; the fighters carry distinct ids.
C19_BlastHitsAllWithinRadius ==
  (/\ hist.query.radius >= 0
   /\ \A a \in hist.inserted, b \in hist.inserted : a # b => entities[a].id # entities[b].id)
  =>
    \A e \in EntObj :
      Cardinality({i \in 1 .. Len(hist.query.result) : hist.query.result[i] = e})
        = IF /\ e \in hist.inserted
             /\ (entities[e].x - hist.query.x) * (entities[e].x - hist.query.x)
                  + (entities[e].y - hist.query.y) * (entities[e].y - hist.query.y)
                  <= hist.query.radius * hist.query.radius
          THEN 1 ELSE 0

C21_AcquireReturnsReleased ==
  [][Len(activeFighters') > Len(activeFighters) =>
       /\ Len(fighterPool) = 1 =>
            /\ activeFighters'[Len(activeFighters) + 1] = fighterPool[1]
            /\ fighterPool' = <<>>
            /\ ~F'[fighterPool[1]].pooled
            /\ fCreated' = fCreated + Len(activeFighters') - Len(activeFighters) - 1
       /\ fighterPool = <<>> =>
            /\ fighterPool' = <<>>
            /\ fCreated' = fCreated + Len(activeFighters') - Len(activeFighters)
            /\ \A i \in Len(activeFighters) + 1 .. Len(activeFighters') :
                 activeFighters'[i] = fCreated + i - Len(activeFighters)]_vars

\* C21 happens: the object a despawn callback released to the empty free list
\* has been acquired again: it fights in the roster and the free list is empty
C21_Witness ==
  /\ hist.despawn.removed # 0 /\ fighterPool = <<>>
  /\ hist.despawn.removed \in Range(activeFighters)
  /\ ~F[hist.despawn.removed].dead /\ ~F[hist.despawn.removed].pooled

\* C22: the enemy count of a wave is max(1, p) x 3 + (wave - 1) x 2 for the p
\* players counted when it starts, and a wave that starts with the player
\* count of the wave before it has at least that wave's enemy count.
C22_EnemyCount ==
  /\ hist.wave.number >= 1 =>
       hist.wave.count = Max(1, hist.wave.players) * BASE_PER_PLAYER
                           + (hist.wave.number - 1) * WAVE_BONUS
  /\ hist.wave.before >= 1 /\ hist.wave.playersBefore = hist.wave.players =>
       hist.wave.countBefore <= hist.wave.count

C22_Witness ==
  /\ hist.wave.number = 2 /\ hist.wave.before = 1
  /\ hist.wave.playersBefore = hist.wave.players
  /\ hist.wave.count = hist.wave.countBefore + WAVE_BONUS

\* C23: the tick in which a melee attacker's windup completes (windup to
\* recover) with its locked target alive applies the attack's damage to that
\* target: the target, if it survives the tick, has lost hp in it.
C23_MeleeDamageAtWindupEnd ==
  [][\A o \in Range(activeFighters) :
       ( /\ UNIT_DEFS[F[o].kind].role = "melee"
         /\ F[o].state = "windup" /\ F'[o].state = "recover"
         /\ F[o].target # 0
         /\ ~F[F[o].target].dead /\ ~F'[F[o].target].dead
         /\ ~F'[F[o].target].pooled )
       => F'[F[o].target].hp < F[F[o].target].hp]_vars

\* C24: a projectile is launched in the tick in which its owner's windup
\* completes, not before: a step that puts a projectile in flight is one in
\* which the ranged or magic fighter that owns it goes from windup to recover.
C24_LaunchAtWindupEnd ==
  [][\A p \in PObj :
       ( /\ p \in Range(activeProjectiles')
         /\ p \notin Range(activeProjectiles) \/ P'[p].lifeMs < P[p].lifeMs )
       => \E o \in Range(activeFighters) :
            /\ F[o].id = P'[p].ownerId
            /\ UNIT_DEFS[F[o].kind].role \in {"ranged", "magic"}
            /\ F[o].state = "windup" /\ F'[o].state = "recover"]_vars

\* C25: a living fighter in windup leaves it only for recover (its timer has
\* elapsed), block or death, and no message handler moves a living fighter out
\* of windup or recover other than into block.
C25_WindupRunsToCompletion ==
  [][\A o \in Range(activeFighters) :
       (~F[o].dead /\ ~F'[o].dead /\ ~F'[o].pooled /\ F'[o].id = F[o].id)
       => /\ F[o].state = "windup" => F'[o].state \in {"windup", "recover", "block"}
          /\ (F[o].state = "recover" /\ pc = "idle" /\ pc' = "idle")
               => F'[o].state \in {"recover", "block"}]_vars

\* C26: a fighter spawned with a kind whose unit definition says canBlock: true
\* is able to block: its canBlock flag, which tryBeginBlock and takeDamage
\* test before anything else, is set.
C26_BlockCapableKindsCanBlock ==
  \A o \in Range(activeFighters) :
    (~F[o].pooled /\ UNIT_DEFS[F[o].kind].canBlock) => F[o].canBlock

\* C27: at the end of every fixed tick the projectiles in flight are alive,
\* have hit nothing and have flown at most 2500 ms, and every other
\* projectile object is in the pool: a projectile is released in the tick of
\* its first hit or in the first tick in which its lifetime exceeds 2500 ms.
\* Every tick adds FIXED_DT to the lifetime of a projectile it leaves in
\* flight, so the release comes after finitely many ticks.  No flight
\* resolves more than one hit and no projectile hits once deactivated.
C27_ProjectilesEndInThePool ==
  [][/\ \A p \in Range(activeProjectiles') :
          /\ P'[p].alive /\ ~P'[p].pooled
          /\ hist'.hits[p] = 0
          /\ P'[p].lifeMs <= PROJ_MAX_LIFE
     /\ \A p \in 1 .. pCreated' :
          p \notin Range(activeProjectiles') =>
            Cardinality({i \in 1 .. Len(projectilePool') : projectilePool'[i] = p}) = 1
     /\ \A p \in Range(activeProjectiles) \cap Range(activeProjectiles') :
          hist'.ticks > hist.ticks => P'[p].lifeMs = P[p].lifeMs + FIXED_DT
     /\ \A p \in PObj : hist'.hits[p] <= 1
     /\ ~hist'.lateHit]_vars

C27_Witness ==
  /\ activeProjectiles = <<>>
  /\ \E p \in Range(projectilePool) :
       /\ hist.hits[p] = 0 /\ ~P[p].alive
       /\ P[p].lifeMs > PROJ_MAX_LIFE /\ P[p].lifeMs <= PROJ_MAX_LIFE + FIXED_DT
  /\ \E q \in Range(projectilePool) :
       hist.hits[q] = 1 /\ ~P[q].alive /\ P[q].lifeMs <= PROJ_MAX_LIFE

\* C28: in a wave the enemies spawn in bursts of at most BURST_SIZE = 4,
\* successive bursts of the wave are at least 500 ms of fixed-tick time apart,
\* waveSpawnsRemaining is never negative, and the regular enemies spawned so
\* far and those still to spawn add up to the quota the wave started with, so
\* that a wave with nothing left to spawn has spawned exactly its quota.
C28_BurstsAndQuota ==
  /\ hist.wave.largest <= BURST_SIZE
  /\ hist.wave.gap >= BURST_INTERVAL_MS
  /\ waveSpawnsRemaining >= 0
  /\ hist.wave.number >= 1 =>
       hist.wave.spawned + waveSpawnsRemaining = hist.wave.quota

C28_Witness ==
  /\ hist.wave.quota > BURST_SIZE /\ hist.wave.bursts = 2
  /\ hist.wave.largest = BURST_SIZE
  /\ waveSpawnsRemaining = 0 /\ hist.wave.spawned = hist.wave.quota

\* C29: a wave whose number is a multiple of BOSS_EVERY = 5 starts with exactly
\* one boss added to the roster, of an enemy-side kind of the boss list, and
\* with the quota max(0, enemyCount - 2); any other wave starts with no boss
\* and the quota enemyCount.
C29_BossEveryFifthWave ==
  hist.wave.number >= 1 =>
    IF hist.wave.number % BOSS_EVERY = 0
    THEN /\ hist.wave.bosses = 1
         /\ hist.wave.boss \in BossKinds
         /\ UNIT_DEFS[hist.wave.boss].side = "enemy"
         /\ hist.wave.quota = Max(0, hist.wave.count - 2)
    ELSE /\ hist.wave.bosses = 0
         /\ hist.wave.quota = hist.wave.count

C29_Witness ==
  /\ hist.wave.number = BOSS_EVERY /\ hist.wave.bosses = 1
  /\ hist.wave.quota = hist.wave.count - 2
  /\ \E o \in Range(activeFighters) : F[o].kind = hist.wave.boss /\ F[o].team = "B"

\* C30: the target a fighter's AI decision has locked is a living, unpooled
\* fighter of the other team in the tick's snapshot, no opponent of the
\* snapshot is nearer (squared Euclidean distance), and of the opponents at
\* that same distance it is the first in the snapshot's order.
C30_TargetIsNearestLivingOpponent ==
  \A o \in Range(activeFighters) :
    (~F[o].dead /\ F[o].target # 0) =>
      /\ F[o].target \in Range(Opponents(Scene, o))
      /\ ~F[F[o].target].dead /\ ~F[F[o].target].pooled
      /\ F[F[o].target].team # F[o].team
      /\ \A i \in 1 .. Len(Opponents(Scene, o)) :
           /\ DistSq(Scene, o, F[o].target) <= DistSq(Scene, o, Opponents(Scene, o)[i])
           /\ DistSq(Scene, o, F[o].target) = DistSq(Scene, o, Opponents(Scene, o)[i])
                => IndexOf(Opponents(Scene, o), F[o].target) <= i

C30_Witness ==
  \E o \in Range(activeFighters) :
    /\ ~F[o].dead /\ Len(Opponents(Scene, o)) = 2
    /\ F[o].target = Opponents(Scene, o)[1]
    /\ DistSq(Scene, o, Opponents(Scene, o)[1]) = DistSq(Scene, o, Opponents(Scene, o)[2])
    /\ Pos(Scene, Opponents(Scene, o)[1]) # Pos(Scene, Opponents(Scene, o)[2])

\* C31: the kind pool a burst of wave w draws from holds exactly
\* min(n, 1 + floor((w - 1) / 2)) of the n enemy-side kinds, none of them with
\* a higher power score than an enemy-side kind left out; it is not empty,
\* holds enemy-side kinds only and is contained in the pool of wave w + 1.
\* The fighters the burst has spawned are of kinds of the pool.
C31_PoolIsWeakestEnemyKinds ==
  hist.wave.bursts > 0 =>
    /\ hist.wave.pool # {}
    /\ \A k \in hist.wave.pool : UNIT_DEFS[k].side = "enemy"
    /\ Cardinality(hist.wave.pool) =
         Min(Cardinality({k \in Kinds : UNIT_DEFS[k].side = "enemy"}),
             1 + (hist.wave.number - 1) \div 2)
    /\ \A a \in hist.wave.pool :
         \A b \in {k \in Kinds : UNIT_DEFS[k].side = "enemy"} \ hist.wave.pool :
           100 * UNIT_DEFS[a].atk + 20 * UNIT_DEFS[a].maxHP + 2 * UNIT_DEFS[a].range
               + 10 * UNIT_DEFS[a].speed
             <= 100 * UNIT_DEFS[b].atk + 20 * UNIT_DEFS[b].maxHP + 2 * UNIT_DEFS[b].range
                  + 10 * UNIT_DEFS[b].speed
    /\ hist.wave.pool \subseteq EnemyPoolForWave(hist.wave.number + 1)
    /\ \A o \in Range(activeFighters) :
         F[o].kind \in hist.wave.pool \cup {hist.wave.boss}

C31_Witness ==
  /\ hist.wave.bursts > 0
  /\ Cardinality(hist.wave.pool) < 1 + (hist.wave.number - 1) \div 2
  /\ \E o \in Range(activeFighters) : F[o].kind = "orc_rider" /\ F[o].level = 1 + (hist.wave.number - 1) \div 2
  /\ \E o \in Range(activeFighters) : F[o].kind = "slime"

\* C32: a gift whose type names no recognised tier (tier 0 here) is handled as
\* a tier-1 gift: handling it spawns one player unit.
C32_UnknownTierSpawnsBaseline ==
  hist.gift.tier = 0 => hist.gift.spawned = 1

\* C33: the index rebuilt from the fighters of the snapshot holds exactly
\* those fighters: every entity inserted since the last clear is in the
\* bucket of a cell, and no other entity is.
C33_RebuildHoldsTheSnapshot ==
  /\ \A e \in hist.inserted :
       \E c \in DOMAIN spatialHash.grid : e \in Range(spatialHash.grid[c])
  /\ \A c \in DOMAIN spatialHash.grid : Range(spatialHash.grid[c]) \subseteq hist.inserted

\* C34: a fighter that spawnKind has just initialised carries nothing of the
\* object's previous life: the fighters a step appends to activeFighters have
\* no last-damaged-by tag, as a freshly constructed fighter has none.
C34_NothingCarriesOver ==
  [][\A i \in Len(activeFighters) + 1 .. Len(activeFighters') :
       F'[activeFighters'[i]].lastHitBy = NewFighter.lastHitBy]_vars

\* C35: fighterMap and activeFighters describe the same set: every fighter of
\* activeFighters is the value fighterMap stores under its id, every value of
\* fighterMap is in activeFighters, and no two fighters of activeFighters
\* share an id.
C35_MapAndRosterAgree ==
  /\ \A i \in 1 .. Len(activeFighters) :
       fighterMap[F[activeFighters[i]].id] = activeFighters[i]
  /\ \A id \in DOMAIN fighterMap :
       fighterMap[id] # 0 => fighterMap[id] \in Range(activeFighters)
  /\ \A i, j \in 1 .. Len(activeFighters) :
       F[activeFighters[i]].id = F[activeFighters[j]].id => i = j

\* C36: the enemy count of a wave is computed from the number of player-side
\* fighters alive in the roster when the wave starts, the first wave of a
\* battle-start message included.
C36_QuotaCountsLivingPlayers ==
  hist.wave.number >= 1 =>
    hist.wave.count = Max(1, hist.wave.alive) * BASE_PER_PLAYER
                        + (hist.wave.number - 1) * WAVE_BONUS

\* C37: the wave number never decreases; it grows, by exactly 1, in the steps
\* that start a wave and in no other; no wave starts while a wave is active;
\* and a wave that starts is the first or follows the clear of the wave
\* before it.
C37_WavesInSequence ==
  [][/\ waveNumber' \in {waveNumber, waveNumber + 1}
     /\ waveActive => waveNumber' = waveNumber
     /\ (~waveActive /\ waveActive') <=> waveNumber' = waveNumber + 1
     /\ waveNumber' = waveNumber + 1 => waveNumber = 0 \/ hist.cleared = waveNumber]_vars

\* C37 happens: wave 1 was cleared, and wave 2 has started and is the active
\* one
C37_Witness ==
  /\ waveNumber = 2 /\ waveActive
  /\ hist.cleared = 1 /\ hist.wave.number = 2 /\ hist.wave.before = 1

\* C38: a fighter-joined, hearts or gift message leaves the phase as it was
\* and starts no wave: only a state or phase message sets the phase.
C38_OnlyStateAndPhaseSetThePhase ==
  [][HandleJoined \/ HandleHearts \/ HandleGift =>
       /\ phase' = phase
       /\ waveNumber' = waveNumber /\ waveActive' = waveActive]_vars

\* C39: no projectile takes hp from a fighter of its own team, in the
\* single-target branch or in the area branch, and none takes hp from a dead
\* fighter.
C39_NoFriendlyFireNoDamageToTheDead ==
  ~hist.shot.foul

\* C39 happens: a magic projectile with an area radius has hit, and a living
\* fighter of the other team carries its owner's tag and has lost hp
C39_Witness ==
  /\ hist.shot.area
  /\ \E po \in DOMAIN hist.hits :
       /\ hist.hits[po] > 0 /\ P[po].kind = "magic" /\ P[po].aoeRadius # 0
       /\ \E i \in 1 .. Len(activeFighters) :
            /\ F[activeFighters[i]].team # P[po].team
            /\ F[activeFighters[i]].lastHitBy = P[po].ownerId
            /\ F[activeFighters[i]].hp < F[activeFighters[i]].maxHP

====
